---- MODULE Spec2Model ----
(***************************************************************************)
(* The call session orchestrator (CallManager), the conversation flow      *)
(* engine (ConversationManager) and the bundled TelephonyService of the    *)
(* AI call center, as a state machine.                                     *)
(*                                                                         *)
(* Python dictionaries are functions with a dynamic domain.  A dictionary  *)
(* that is shared by reference (a call session) lives in the object store  *)
(* "sessions" and is named by its reference.  Texts are tuples of string   *)
(* fragments (an f-string is the tuple of its pieces), times are whole     *)
(* seconds of the clock "now", scores are hundredths.                      *)
(***************************************************************************)
EXTENDS Integers, Sequences, FiniteSets, TLC

\* ------------------------------------------------------------- bounds
MaxTime == 1      \* the clock stops advancing here
MaxRequests == 3  \* requests accepted in one run

\* ------------------------------------------------- Python's None, per type
NoConv == 0                \* conversation_id None
NoTime == -1               \* a time that is None
NoText == <<>>             \* a text / url that is None
NoKey == ""                \* a dictionary key that is absent

\* dict.get(key, default) on a record
Get(rec, key, default) == IF key \in DOMAIN rec THEN rec[key] ELSE default

\* ------------------------------------------------------------- inputs
\* what the intent extractor and the sentiment scorer answer for one text
EngineInputs ==
  { [intent |-> "unknown", sentiment |-> "neutral", score |-> 50],
    [intent |-> "farewell", sentiment |-> "neutral", score |-> 50],
    [intent |-> "transfer", sentiment |-> "neutral", score |-> 50],
    [intent |-> "unknown", sentiment |-> "negative", score |-> 10] }
\* what random.choice draws, as an index into the candidates
Picks == {1}
\* the flow_type a caller may name, besides leaving it to the default
FlowInputs == {"real_estate"}
SuppliedCallIds == { <<"c1", 0, "">> }
PhoneNumbers == {"+15559876543"}
Digits == {"1"}
Speech == { <<"I want to speak to a human">> }
Reasons == {NoKey, "user_hangup"}
TranscriptionResults ==
  { [error |-> NoKey, text |-> s] : s \in Speech }
    \cup { [error |-> "API key not provided", text |-> <<"">>] }

\* ===================================================================
\* ConversationManager (src/ai_engine/conversation.py)
\* ===================================================================
flows ==
  [ default |->
      [ greeting |->
          [ responses |-> << <<"Hello! Thank you for calling. How can I assist you today?">>,
                             <<"Hi there! How may I help you today?">>,
                             <<"Welcome! What can I do for you?">> >>,
            next_states |-> <<"information", "booking", "complaint", "farewell">> ],
        information |->
          [ responses |-> << <<"I'd be happy to provide that information. What specifically would you like to know?">>,
                             <<"I can help with that. Could you please specify what information you're looking for?">> >>,
            next_states |-> <<"information_detail", "booking", "complaint", "farewell">> ],
        booking |->
          [ responses |-> << <<"I can help you schedule that. When would you like to book it?">>,
                             <<"I'd be happy to assist with booking. What date works best for you?">> >>,
            next_states |-> <<"booking_confirmation", "information", "complaint", "farewell">> ],
        complaint |->
          [ responses |-> << <<"I'm sorry to hear that. Could you please provide more details about the issue?">>,
                             <<"I apologize for the inconvenience. Please tell me more about what happened.">> >>,
            next_states |-> <<"complaint_resolution", "transfer", "farewell">> ],
        farewell |->
          [ responses |-> << <<"Thank you for calling. Have a great day!">>,
                             <<"Is there anything else I can help you with before we end the call?">>,
                             <<"Thank you for your time. Goodbye!">> >>,
            next_states |-> <<>> ],
        transfer |->
          [ responses |-> << <<"I'll connect you with a human representative right away. Please hold.">>,
                             <<"I understand you'd like to speak with a person. I'm transferring you now.">> >>,
            next_states |-> <<>> ] ],
    real_estate |->
      [ greeting |->
          [ responses |-> << <<"Hello! Thank you for calling our real estate service. How can I assist you today?">>,
                             <<"Welcome to our real estate hotline. How may I help you?">> >>,
            next_states |-> <<"property_inquiry", "viewing_schedule", "price_inquiry", "farewell">> ],
        property_inquiry |->
          [ responses |-> << <<"I'd be happy to tell you about our properties. What area are you interested in?">>,
                             <<"We have several properties available. Are you looking for a specific location or type of property?">> >>,
            next_states |-> <<"property_detail", "viewing_schedule", "price_inquiry", "farewell">> ] ],
    customer_support |->
      [ greeting |->
          [ responses |-> << <<"Hello! Thank you for calling customer support. How can I assist you today?">>,
                             <<"Welcome to customer support. How may I help you?">> >>,
            next_states |-> <<"issue_report", "account_inquiry", "product_inquiry", "farewell">> ],
        issue_report |->
          [ responses |-> << <<"I'm sorry to hear you're experiencing an issue. Could you please describe the problem?">>,
                             <<"I'd be happy to help resolve your issue. What seems to be the problem?">> >>,
            next_states |-> <<"troubleshooting", "escalation", "farewell">> ] ] ]

\* self.flows.get(flow_type, self.flows["default"])
FlowOf(flow_type) ==
  IF flow_type \in DOMAIN flows THEN flows[flow_type] ELSE flows["default"]

\* variant: a state the flow lacks is looked up as the default flow's greeting
StateInfo_default_greeting(flow, state) ==
  IF state \in DOMAIN flow THEN flow[state] ELSE flows["default"]["greeting"]

\* flow.get(state, flow["greeting"])
StateInfo(flow, state) ==
  IF state \in DOMAIN flow THEN flow[state] ELSE flow["greeting"]

\* random.choice(responses), the random source being the index pick
choice(responses, pick) == responses[((pick - 1) % Len(responses)) + 1]

\* variant: every response is drawn from the greeting state's candidates
_get_response_greeting(flow_type, state, pick) ==
  choice(FlowOf(flow_type)["greeting"].responses, pick)

_get_response(flow_type, state, pick) ==
  choice(StateInfo(FlowOf(flow_type), state).responses, pick)

\* metadata or {}: the keys intent and sentiment, NoKey when absent
NoMetadata == [intent |-> NoKey, sentiment |-> NoKey]

\* variant: the history keeps the latest turn only
_add_to_history_latest(conversation, speaker, text, metadata, t) ==
  [conversation EXCEPT !.history =
     << [speaker |-> speaker, text |-> text, timestamp |-> t,
         metadata |-> metadata] >>]

_add_to_history(conversation, speaker, text, metadata, t) ==
  [conversation EXCEPT !.history =
     Append(@, [speaker |-> speaker, text |-> text, timestamp |-> t,
                metadata |-> metadata])]

\* the conversation filed in the store and returned to the caller
opened(convs, conversation) ==
  [convs |-> (conversation.id :> conversation) @@ convs, conversation |-> conversation]

\* variant: a conversation is opened whether or not the id is active
start_conversation_anew(convs, conversation_id, flow_type, context, uuid, pick, t) ==
  LET id == IF conversation_id = NoConv THEN uuid ELSE conversation_id
      ft == IF flow_type \notin DOMAIN flows THEN "default" ELSE flow_type
  IN opened(convs,
            _add_to_history(
              [ id |-> id, flow_type |-> ft, state |-> "greeting",
                history |-> <<>>, context |-> context,
                created_at |-> t, last_updated |-> t ],
              "system", _get_response(ft, "greeting", pick), NoMetadata, t))

\* variant: the conversation is opened without a greeting
start_conversation_silent(convs, conversation_id, flow_type, context, uuid, pick, t) ==
  LET id == IF conversation_id = NoConv THEN uuid ELSE conversation_id
      ft == IF flow_type \notin DOMAIN flows THEN "default" ELSE flow_type
  IN IF id \in DOMAIN convs
       THEN [convs |-> convs, conversation |-> convs[id]]
       ELSE opened(convs,
              [ id |-> id, flow_type |-> ft, state |-> "greeting",
                history |-> <<>>, context |-> context,
                created_at |-> t, last_updated |-> t ])

\* variant: the conversation is bound to the flow_type as given
start_conversation_any_flow(convs, conversation_id, flow_type, context, uuid, pick, t) ==
  LET id == IF conversation_id = NoConv THEN uuid ELSE conversation_id
  IN IF id \in DOMAIN convs
       THEN [convs |-> convs, conversation |-> convs[id]]
       ELSE opened(convs,
              _add_to_history(
                [ id |-> id, flow_type |-> flow_type, state |-> "greeting",
                  history |-> <<>>, context |-> context,
                  created_at |-> t, last_updated |-> t ],
                "system", _get_response(flow_type, "greeting", pick), NoMetadata, t))

\* Returns the store and the conversation returned to the caller.  uuid is
\* the value uuid.uuid4() yields when it is asked for one.
start_conversation(convs, conversation_id, flow_type, context, uuid, pick, t) ==
  LET id == IF conversation_id = NoConv THEN uuid ELSE conversation_id
      ft == IF flow_type \notin DOMAIN flows THEN "default" ELSE flow_type
  IN IF id \in DOMAIN convs
       THEN [convs |-> convs, conversation |-> convs[id]]
       ELSE opened(convs,
              _add_to_history(
                [ id |-> id, flow_type |-> ft, state |-> "greeting",
                  history |-> <<>>, context |-> context,
                  created_at |-> t, last_updated |-> t ],
                "system", _get_response(ft, "greeting", pick), NoMetadata, t))

\* TransferPolicy: intent == "transfer" or sentiment == "negative" and score < 0.2
TransferScoreThreshold == 20
\* variant: any negative sentiment asks for a transfer, whatever its score
transfer_policy_any_negative(intent, sentiment_result) ==
  \/ intent = "transfer"
  \/ sentiment_result.sentiment = "negative"

transfer_policy(intent, sentiment_result) ==
  \/ intent = "transfer"
  \/ /\ sentiment_result.sentiment = "negative"
     /\ sentiment_result.score < TransferScoreThreshold

\* variant: an intent that is not eligible leads to the first eligible state
map_intent_first_entry(next_states, intent) ==
  IF \E i \in 1..Len(next_states) : next_states[i] = intent THEN intent
  ELSE IF Len(next_states) > 0 THEN next_states[1]
  ELSE "farewell"

\* Map intent to next state
map_intent(next_states, intent) ==
  IF \E i \in 1..Len(next_states) : next_states[i] = intent THEN intent
  ELSE IF (\E i \in 1..Len(next_states) : next_states[i] = "information")
            /\ intent = "unknown" THEN "information"
  ELSE IF Len(next_states) > 0 THEN next_states[1]
  ELSE "farewell"

\* variant: the state is the mapped one, a transfer being required or not
next_state_of_mapped(flow_type, current_state, intent, transfer_required) ==
  map_intent(StateInfo(FlowOf(flow_type), current_state).next_states, intent)

\* lines 212-231: the state the turn leads to
next_state_of(flow_type, current_state, intent, transfer_required) ==
  IF transfer_required THEN "transfer"
  ELSE map_intent(StateInfo(FlowOf(flow_type), current_state).next_states, intent)

\* variant: the response is filed in the history of every conversation
answer_broadcast(convs, conversation, flow_type, intent, sentiment_result, transfer_required, next_state, response, t) ==
  [ convs |-> (conversation.id :>
                 _add_to_history([conversation EXCEPT !.state = next_state,
                                                      !.last_updated = t],
                                 "system", response, NoMetadata, t))
              @@ [id \in DOMAIN convs |->
                    _add_to_history(convs[id], "system", response, NoMetadata, t)],
    result |-> [ conversation_id |-> conversation.id, intent |-> intent,
                 sentiment |-> sentiment_result.sentiment,
                 sentiment_score |-> sentiment_result.score,
                 response |-> response, next_state |-> next_state,
                 transfer_required |-> transfer_required ] ]

\* lines 233-255: the conversation moves to next_state and answers
answer(convs, conversation, flow_type, intent, sentiment_result, transfer_required, next_state, response, t) ==
  [ convs |-> (conversation.id :>
                 _add_to_history([conversation EXCEPT !.state = next_state,
                                                      !.last_updated = t],
                                 "system", response, NoMetadata, t)) @@ convs,
    result |-> [ conversation_id |-> conversation.id, intent |-> intent,
                 sentiment |-> sentiment_result.sentiment,
                 sentiment_score |-> sentiment_result.score,
                 response |-> response, next_state |-> next_state,
                 transfer_required |-> transfer_required ] ]

\* lines 208-241: the turn, once the user's text is in the history
turn(convs, conversation, flow_type, intent, sentiment_result, next_state, pick, t) ==
  answer(convs, conversation, flow_type, intent, sentiment_result,
         transfer_policy(intent, sentiment_result), next_state,
         _get_response(flow_type, next_state, pick), t)

\* lines 196-206: the user's text is filed in the history of the
\* conversation st.conversation
hear(st, text, flow_type, nlp_result, sentiment_result, pick, t) ==
  turn(st.convs,
       _add_to_history(st.conversation, "user", text,
                       [intent |-> nlp_result.intent,
                        sentiment |-> sentiment_result.sentiment], t),
       flow_type, nlp_result.intent, sentiment_result,
       next_state_of(flow_type, st.conversation.state, nlp_result.intent,
                     transfer_policy(nlp_result.intent, sentiment_result)),
       pick, t)

\* ConversationManager.process: returns the store and the result dictionary.
\* pick0 serves the greeting of a conversation created here, pick the response.
process(convs, text, context, nlp_result, sentiment_result, uuid, pick0, pick, t) ==
  hear(start_conversation(convs, Get(context, "conversation_id", NoConv),
                          Get(context, "flow_type", "default"), context,
                          uuid, pick0, t),
       text, Get(context, "flow_type", "default"), nlp_result, sentiment_result,
       pick, t)

\* variant: the conversation is returned and stays in the store
end_conversation_kept(convs, conversation_id) == convs

\* ConversationManager.end_conversation: the store without the conversation
end_conversation(convs, conversation_id) ==
  [id \in DOMAIN convs \ {conversation_id} |-> convs[id]]

\* ===================================================================
\* TelephonyService (src/telephony/telephony_service.py), on its
\* active_calls dictionary
\* ===================================================================
OutboundNumber == "+15551234567"

\* phone_number.replace('+', '')
replace_plus(phone_number) ==
  IF phone_number = "+15559876543" THEN "15559876543" ELSE phone_number

NoRecording == [status |-> NoKey, start_time |-> NoTime, end_time |-> NoTime]

\* the call id of make_call: call_<seconds>_<number without +>
make_call_id(phone_number, t) == <<"call", t, replace_plus(phone_number)>>

make_call(active, phone_number, t) ==
  LET call_id == make_call_id(phone_number, t)
      call_info ==
        [ call_id |-> call_id, direction |-> "outbound", from |-> OutboundNumber,
          to |-> phone_number, status |-> "ringing", start_time |-> t,
          end_time |-> NoTime, duration |-> 0, end_reason |-> NoKey,
          answer_time |-> NoTime, transferred_to |-> NoKey,
          transfer_time |-> NoTime, recording |-> NoRecording ]
  IN (call_id :> call_info) @@ active

answer_call(active, call_id, t) ==
  IF call_id \notin DOMAIN active THEN active
  ELSE [active EXCEPT ![call_id].status = "in-progress",
                      ![call_id].answer_time = t]

tel_end_call(active, call_id, reason, t) ==
  IF call_id \notin DOMAIN active THEN active
  ELSE [active EXCEPT ![call_id].status = "completed",
                      ![call_id].end_time = t,
                      ![call_id].end_reason = IF reason = NoKey THEN "normal" ELSE reason,
                      ![call_id].duration = t - active[call_id].start_time]

transfer_call(active, call_id, transfer_to, t) ==
  IF call_id \notin DOMAIN active THEN active
  ELSE [active EXCEPT ![call_id].status = "transferred",
                      ![call_id].transferred_to = transfer_to,
                      ![call_id].transfer_time = t]

start_recording(active, call_id, t) ==
  IF call_id \notin DOMAIN active THEN active
  ELSE [active EXCEPT ![call_id].recording =
          [status |-> "in-progress", start_time |-> t, end_time |-> NoTime]]

stop_recording(active, call_id, t) ==
  IF call_id \notin DOMAIN active THEN active
  ELSE IF active[call_id].recording.status # "in-progress" THEN active
  ELSE [active EXCEPT ![call_id].recording.status = "completed",
                      ![call_id].recording.end_time = t]

\* call_info["recording"]["url"], present once the recording is completed
recording_url_of(call_id) == <<"https://example.com/recordings/", call_id, ".wav">>

\* "url" in recording_result.get("recording", {})
has_recording_url(active, call_id) ==
  /\ call_id \in DOMAIN active
  /\ active[call_id].recording.status = "completed"

\* ===================================================================
\* CallManager (src/telephony/call_manager.py)
\*
\* An operation is a function of the world w: the registry call_sessions
\* (call id -> reference), the session objects, the two collaborators'
\* stores, the uuids drawn so far, the collaborator invocations the running
\* handler made (log) and its return value (ret).
\* ===================================================================
DefaultTransferNumber == "+15551234567"
SupportTransferNumber == "+15552345678"
SalesTransferNumber == "+15553456789"
ListenTimeout == 5000
PreviewLength == 50

_load_config(recording_enabled) ==
  [ recording_enabled |-> recording_enabled,
    default_flow_type |-> "default",
    transfer_numbers |-> [ default |-> DefaultTransferNumber,
                           support |-> SupportTransferNumber,
                           sales |-> SalesTransferNumber ] ]

NoAction == [type |-> NoKey, timeout |-> 0]
Listen == [type |-> "listen", timeout |-> ListenTimeout]
NoSummary == [kind |-> "None"]

\* return values: {"error": ...}, {"action": ...} or the call session
NoRet == [kind |-> "pending"]
ErrorRet(message) == [kind |-> "error", error |-> message]
SessionRet(ref) == [kind |-> "session", ref |-> ref]
ActionRet(action, message, next_state, transfer_to) ==
  [ kind |-> "action", action |-> action, message |-> message,
    next_state |-> next_state, transfer_to |-> transfer_to ]

Return(w, ret) == [w EXCEPT !.ret = ret]

\* one collaborator invocation, as a mock would record it
Logged(w, fn, call_id, arg, ok) ==
  [w EXCEPT !.log = Append(@, [fn |-> fn, call_id |-> call_id, arg |-> arg, ok |-> ok])]

\* self.telephony_service.<fn>(call_id, ...): ok is FALSE when the service
\* answers {"error": "Call not found"}
Telephony(w, fn, call_id, arg, t) ==
  Logged([w EXCEPT !.calls =
            CASE fn = "answer_call" -> answer_call(@, call_id, t)
              [] fn = "start_recording" -> start_recording(@, call_id, t)
              [] fn = "stop_recording" -> stop_recording(@, call_id, t)
              [] fn = "transfer_call" -> transfer_call(@, call_id, arg[1], t)
              [] fn = "end_call" -> tel_end_call(@, call_id, arg[1], t)],
         fn, call_id, arg, call_id \in DOMAIN w.calls)

\* if <condition>: self.telephony_service.<fn>(call_id)
TelephonyIf(condition, w, fn, call_id, arg, t) ==
  IF condition THEN Telephony(w, fn, call_id, arg, t) ELSE w

\* self.ai_engine.tts_engine.synthesize(text)
Synthesize(w, call_id, text) == Logged(w, "synthesize", call_id, text, TRUE)

\* a reference no session object has
NewRef(sessions) ==
  CHOOSE r \in 1..(Cardinality(DOMAIN sessions) + 1) :
    /\ r \notin DOMAIN sessions
    /\ \A q \in 1..(r - 1) : q \in DOMAIN sessions

\* variant: the transcript holds the latest message only
_add_to_transcript_latest(call_session, speaker, text, t) ==
  [call_session EXCEPT !.transcript =
     << [speaker |-> speaker, text |-> text, timestamp |-> t] >>]

_add_to_transcript(call_session, speaker, text, t) ==
  [call_session EXCEPT !.transcript =
     Append(@, [speaker |-> speaker, text |-> text, timestamp |-> t])]

Count(transcript, speaker) ==
  Cardinality({i \in 1..Len(transcript) : transcript[i].speaker = speaker})

\* text[:50] followed by "..."
preview(text) == [of |-> text, chars |-> PreviewLength]

\* variant: the last entry is previewed whatever the transcript's length
_generate_call_summary_always_ended(call_session) ==
  LET transcript == call_session.transcript
      duration_seconds == call_session.duration
  IN IF Len(transcript) = 0 THEN [kind |-> "No transcript available."]
     ELSE [ kind |-> "summary",
            minutes |-> duration_seconds \div 60,
            seconds |-> duration_seconds % 60,
            user_turns |-> Count(transcript, "user"),
            system_turns |-> Count(transcript, "system"),
            started_with |-> preview(transcript[1].text),
            ended_with |-> preview(transcript[Len(transcript)].text) ]

_generate_call_summary(call_session) ==
  LET transcript == call_session.transcript
      duration_seconds == call_session.duration
  IN IF Len(transcript) = 0 THEN [kind |-> "No transcript available."]
     ELSE [ kind |-> "summary",
            minutes |-> duration_seconds \div 60,
            seconds |-> duration_seconds % 60,
            user_turns |-> Count(transcript, "user"),
            system_turns |-> Count(transcript, "system"),
            started_with |-> preview(transcript[1].text),
            ended_with |-> IF Len(transcript) > 1
                             THEN preview(transcript[Len(transcript)].text)
                             ELSE preview(NoText) ]

\* variant: a new call session is in progress from the start
new_session_in_progress(call_id, direction, from, to, flow_type, t) ==
  [ call_id |-> call_id, direction |-> direction, from |-> from, to |-> to,
    start_time |-> t, end_time |-> NoTime, duration |-> 0,
    status |-> "in-progress", conversation_id |-> NoConv, flow_type |-> flow_type,
    recording_url |-> NoText, transcript |-> <<>>, summary |-> NoSummary,
    next_action |-> NoAction,
    transfer_to |-> NoKey, transfer_time |-> NoTime, end_reason |-> NoKey ]

\* the fields of a new call session (handle_incoming_call, make_outbound_call)
new_session(call_id, direction, from, to, flow_type, t) ==
  [ call_id |-> call_id, direction |-> direction, from |-> from, to |-> to,
    start_time |-> t, end_time |-> NoTime, duration |-> 0,
    status |-> "initiated", conversation_id |-> NoConv, flow_type |-> flow_type,
    recording_url |-> NoText, transcript |-> <<>>, summary |-> NoSummary,
    next_action |-> NoAction,
    transfer_to |-> NoKey, transfer_time |-> NoTime, end_reason |-> NoKey ]

\* the first system message of the conversation history, None without one
first_system_text(history) ==
  IF \E i \in 1..Len(history) : history[i].speaker = "system"
    THEN history[CHOOSE i \in 1..Len(history) :
                   /\ history[i].speaker = "system"
                   /\ \A j \in 1..(i - 1) : history[j].speaker # "system"].text
    ELSE NoText

\* variant: the greeting is filed and spoken, and no listen is armed
say_greeting_unarmed(w, ref, call_id, greeting, t) ==
  IF greeting # NoText
    THEN Synthesize([w EXCEPT !.sessions[ref] =
                       _add_to_transcript(@, "system", greeting, t)],
                    call_id, greeting)
    ELSE w

\* lines 136-149: the greeting is filed, spoken, and the call listens
say_greeting(w, ref, call_id, greeting, t) ==
  IF greeting # NoText
    THEN [Synthesize([w EXCEPT !.sessions[ref] =
                        _add_to_transcript(@, "system", greeting, t)],
                     call_id, greeting)
            EXCEPT !.sessions[ref].next_action = Listen]
    ELSE w

\* lines 127-134: the conversation st.conversation is linked to the session
link_conversation(w, ref, call_id, st, t) ==
  say_greeting(Logged([w EXCEPT !.convs = st.convs, !.uuids = @ + 1,
                                !.sessions[ref].conversation_id = st.conversation.id],
                      "start_conversation", call_id,
                      <<w.sessions[ref].flow_type>>, TRUE),
               ref, call_id, first_system_text(st.conversation.history), t)

\* start the conversation, then greet: shared tail of the two set-ups
greet(w, ref, call_id, direction, pick, t) ==
  link_conversation(w, ref, call_id,
    start_conversation(w.convs, NoConv, w.sessions[ref].flow_type,
                       [call_id |-> call_id, direction |-> direction,
                        flow_type |-> w.sessions[ref].flow_type],
                       w.uuids + 1, pick, t),
    t)

\* the call id handle_incoming_call files the session under
incoming_call_id(call_data, t) ==
  IF Get(call_data, "call_id", NoText) # NoText
    THEN call_data.call_id
    ELSE <<"call", t, "">>

\* self.call_sessions[call_id] = call_session
register(w, call_id, ref, call_session) ==
  [w EXCEPT !.sessions = (ref :> call_session) @@ @,
            !.call_sessions = (call_id :> ref) @@ @]

handle_incoming_call(w, config, call_data, pick, t) ==
  LET call_id == incoming_call_id(call_data, t)
      ref == NewRef(w.sessions)
      registered ==
        register(w, call_id, ref,
          new_session(call_id, "inbound", Get(call_data, "from", NoKey),
                      Get(call_data, "to", NoKey),
                      Get(call_data, "flow_type", config.default_flow_type), t))
      answered == TelephonyIf("call_id" \in DOMAIN call_data, registered,
                              "answer_call", call_id, <<>>, t)
      recorded == TelephonyIf(config.recording_enabled, answered,
                              "start_recording", call_id, <<>>, t)
  IN Return(greet(recorded, ref, call_id, "inbound", pick, t), SessionRet(ref))

\* lines 175-205: the session of the call the telephony service placed
outbound_session(w, config, call_id, ref, context, t) ==
  [ TelephonyIf(config.recording_enabled,
                register(w, call_id, ref,
                  new_session(call_id, "outbound", w.calls[call_id].from,
                              w.calls[call_id].to,
                              Get(context, "flow_type", config.default_flow_type), t)),
                "start_recording", call_id, <<>>, t)
      EXCEPT !.sessions[ref].status = "in-progress" ]

\* what make_call answers: the call the bundled service placed, and the
\* error of a telephony service that could not place one
placed_call(phone_number, t) ==
  [call_id |-> make_call_id(phone_number, t), status |-> "ringing"]
dial_error(message) == [error |-> message]

\* if "error" in call_result
dial_failed(call_result) == "error" \in DOMAIN call_result

\* line 168: self.telephony_service.make_call(phone_number), which answered
\* call_result
dial(w, phone_number, call_result, t) ==
  Logged(IF "error" \in DOMAIN call_result
           THEN w ELSE [w EXCEPT !.calls = make_call(@, phone_number, t)],
         "make_call", make_call_id(phone_number, t), <<phone_number>>,
         "error" \notin DOMAIN call_result)

\* lines 174-244: the call was placed, under call_id
call_placed(w, config, call_id, ref, context, pick, t) ==
  Return(greet(outbound_session(w, config, call_id, ref, context, t),
               ref, call_id, "outbound", pick, t),
         SessionRet(ref))

\* variant: a dial that failed leaves a session behind, with status failed
make_outbound_call_failed_session(w, config, phone_number, context, call_result, pick, t) ==
  IF dial_failed(call_result)
    THEN Return(register(dial(w, phone_number, call_result, t),
                         make_call_id(phone_number, t), NewRef(w.sessions),
                         [new_session(make_call_id(phone_number, t), "outbound",
                                      OutboundNumber, phone_number,
                                      Get(context, "flow_type", config.default_flow_type), t)
                            EXCEPT !.status = "failed"]),
                ErrorRet(call_result.error))
    ELSE call_placed(dial(w, phone_number, call_result, t), config,
                     call_result.call_id, NewRef(w.sessions), context, pick, t)

make_outbound_call(w, config, phone_number, context, call_result, pick, t) ==
  IF dial_failed(call_result)
    THEN Return(dial(w, phone_number, call_result, t), ErrorRet(call_result.error))
    ELSE call_placed(dial(w, phone_number, call_result, t), config,
                     call_result.call_id, NewRef(w.sessions), context, pick, t)

\* the transfer goes to the support line
transfer_number_support(config) == config.transfer_numbers.support

\* self.config["transfer_numbers"]["default"]
transfer_number(config) == config.transfer_numbers.default

\* the transcription's error goes unnoticed
transcription_failed_unchecked(transcription_result) == FALSE

\* "error" in transcription_result
transcription_failed(transcription_result) == transcription_result.error # NoKey

\* the turn is compared with a state no flow has
is_ending_goodbye(conversation_result) == conversation_result.next_state = "goodbye"

\* conversation_result["next_state"] == "farewell"
is_ending(conversation_result) == conversation_result.next_state = "farewell"

\* line 463: the summary is generated from the ended session
summarised(call_session) ==
  [call_session EXCEPT !.summary = _generate_call_summary(call_session)]

\* lines 443-447: the recording is stopped, its url kept when there is one
stop_and_keep_url(w, call_id, ref, t) ==
  IF has_recording_url(stop_recording(w.calls, call_id, t), call_id)
    THEN [Telephony(w, "stop_recording", call_id, <<>>, t)
            EXCEPT !.sessions[ref].recording_url = recording_url_of(call_id)]
    ELSE Telephony(w, "stop_recording", call_id, <<>>, t)

\* variant: the end reason is the reason as given, None when none was
complete_reason_as_given(w, call_id, ref, reason, t) ==
  [Telephony(w, "end_call", call_id, <<reason>>, t) EXCEPT !.sessions[ref] =
     summarised([@ EXCEPT
                   !.status = "completed",
                   !.end_time = t,
                   !.end_reason = reason,
                   !.duration = t - w.sessions[ref].start_time])]

\* lines 449-463: the call is ended at the telephony service, the session
\* completed and summarised
complete(w, call_id, ref, reason, t) ==
  [Telephony(w, "end_call", call_id, <<reason>>, t) EXCEPT !.sessions[ref] =
     summarised([@ EXCEPT
                   !.status = "completed",
                   !.end_time = t,
                   !.end_reason = IF reason = NoKey THEN "normal" ELSE reason,
                   !.duration = t - w.sessions[ref].start_time])]

end_call_body(w, config, call_id, ref, reason, t) ==
  Return(complete(IF config.recording_enabled
                       /\ w.sessions[ref].status # "transferred"
                    THEN stop_and_keep_url(w, call_id, ref, t) ELSE w,
                  call_id, ref, reason, t),
         SessionRet(ref))

end_call(w, config, call_id, reason, t) ==
  IF call_id \notin DOMAIN w.call_sessions
    THEN Return(w, ErrorRet("Call session not found"))
    ELSE end_call_body(w, config, call_id, w.call_sessions[call_id], reason, t)

\* process_speech, lines 265-275: the transcription is back
ps_transcribed(w, call_id, ref, transcription_result, t) ==
  IF transcription_failed(transcription_result)
    THEN Return(Logged(w, "transcribe", call_id, <<>>, FALSE),
                ErrorRet(transcription_result.error))
    ELSE [Logged(w, "transcribe", call_id, <<>>, TRUE) EXCEPT !.sessions[ref] =
            _add_to_transcript(@, "user", transcription_result.text, t)]

\* the engine's store and its result, back in the handler
conversed(w, call_id, text, ai_context, p) ==
  [ w |-> Logged([w EXCEPT !.convs = p.convs,
                           !.uuids = IF ai_context.conversation_id = NoConv
                                       THEN @ + 1 ELSE @],
                 "process", call_id, text, TRUE),
    result |-> p.result ]

\* lines 277-290 and 378-398: one turn of the conversation manager; the
\* world and the engine's result
converse(w, call_id, text, ai_context, nlp_result, sentiment_result, pick0, pick, t) ==
  conversed(w, call_id, text, ai_context,
            process(w.convs, text, ai_context, nlp_result, sentiment_result,
                    w.uuids + 1, pick0, pick, t))

\* variant: the context names the call and the flow, and no conversation
speech_context_unlinked(call_id, call_session) ==
  [ call_id |-> call_id, conversation_id |-> NoConv,
    flow_type |-> call_session.flow_type ]

speech_context(call_id, call_session) ==
  [ call_id |-> call_id, conversation_id |-> call_session.conversation_id,
    flow_type |-> call_session.flow_type ]

dtmf_context(call_id, call_session) ==
  [ call_id |-> call_id, conversation_id |-> call_session.conversation_id,
    flow_type |-> call_session.flow_type, input_type |-> "dtmf" ]

\* "Transferring to a human representative at <number>."
transfer_message(transfer_to) ==
  <<"Transferring to a human representative at ", transfer_to, ".">>

\* process_speech, lines 294-318: the call is transferred
ps_transfer(w, config, call_id, ref, transfer_to, t) ==
  Return(TelephonyIf(config.recording_enabled,
                     [Telephony(w, "transfer_call", call_id, <<transfer_to>>, t)
                        EXCEPT !.sessions[ref] =
                          _add_to_transcript(
                            [@ EXCEPT !.status = "transferred",
                                      !.transfer_to = transfer_to,
                                      !.transfer_time = t],
                            "system", transfer_message(transfer_to), t)],
                     "stop_recording", call_id, <<>>, t),
         ActionRet("transfer", transfer_message(transfer_to), NoKey, transfer_to))

\* process_speech, lines 332-354: the response is out; farewell ends the call
ps_continue(w, config, call_id, ref, conversation_result, t) ==
  IF is_ending(conversation_result)
    THEN Return(end_call(w, config, call_id, "completed", t),
                ActionRet("end_call", conversation_result.response, NoKey, NoKey))
    ELSE Return([w EXCEPT !.sessions[ref].next_action = Listen],
                ActionRet("continue", conversation_result.response,
                          conversation_result.next_state, NoKey))

\* lines 320-330 and 400-406: the response is filed and spoken
respond(w, call_id, ref, response, t) ==
  Synthesize([w EXCEPT !.sessions[ref] = _add_to_transcript(@, "system", response, t)],
             call_id, response)

\* process_speech, lines 292-354: act on the engine's result
ps_act(w, config, call_id, ref, conversation_result, t) ==
  IF conversation_result.transfer_required
    THEN ps_transfer(w, config, call_id, ref, transfer_number(config), t)
    ELSE ps_continue(respond(w, call_id, ref, conversation_result.response, t),
                     config, call_id, ref, conversation_result, t)

NoResult ==
  [ conversation_id |-> NoConv, intent |-> NoKey, sentiment |-> NoKey,
    sentiment_score |-> 0, response |-> NoText, next_state |-> NoKey,
    transfer_required |-> FALSE ]

\* a handler's outcome: the world and, for a turn, the engine's result
Outcome(w, result) == [w |-> w, result |-> result]

\* process_speech, lines 292-354, on the turn c the engine made
ps_acted(c, config, call_id, ref, t) ==
  Outcome(ps_act(c.w, config, call_id, ref, c.result, t), c.result)

\* process_speech, lines 268-354, on the world w the transcription left
ps_heard(w, config, call_id, ref, text, nlp_result, sentiment_result, pick0, pick, t) ==
  IF w.ret # NoRet
    THEN Outcome(w, NoResult)
    ELSE ps_acted(converse(w, call_id, text, speech_context(call_id, w.sessions[ref]),
                           nlp_result, sentiment_result, pick0, pick, t),
                  config, call_id, ref, t)

process_speech(w, config, call_id, transcription_result, nlp_result, sentiment_result, pick0, pick, t) ==
  IF call_id \notin DOMAIN w.call_sessions
    THEN Outcome(Return(w, ErrorRet("Call session not found")), NoResult)
    ELSE ps_heard(ps_transcribed(w, call_id, w.call_sessions[call_id],
                                 transcription_result, t),
                  config, call_id, w.call_sessions[call_id],
                  transcription_result.text, nlp_result, sentiment_result,
                  pick0, pick, t)

\* process_dtmf, lines 371-376: the digits are filed in the transcript
pd_heard(w, ref, digits, t) ==
  [w EXCEPT !.sessions[ref] = _add_to_transcript(@, "user", <<"DTMF: ", digits>>, t)]

\* process_dtmf, lines 400-422
pd_act(w, call_id, ref, conversation_result, t) ==
  Return([respond(w, call_id, ref, conversation_result.response, t)
            EXCEPT !.sessions[ref].next_action = Listen],
         ActionRet("continue", conversation_result.response,
                   conversation_result.next_state, NoKey))

\* process_dtmf, lines 400-422, on the turn c the engine made
pd_acted(c, call_id, ref, t) ==
  Outcome(pd_act(c.w, call_id, ref, c.result, t), c.result)

\* process_dtmf, lines 378-398: the digits go to the engine as a text
pd_converse(w, call_id, ref, digits, nlp_result, sentiment_result, pick0, pick, t) ==
  converse(w, call_id, <<"Pressed ", digits>>, dtmf_context(call_id, w.sessions[ref]),
           nlp_result, sentiment_result, pick0, pick, t)

process_dtmf(w, call_id, digits, nlp_result, sentiment_result, pick0, pick, t) ==
  IF call_id \notin DOMAIN w.call_sessions
    THEN Outcome(Return(w, ErrorRet("Call session not found")), NoResult)
    ELSE pd_acted(pd_converse(pd_heard(w, w.call_sessions[call_id], digits, t),
                              call_id, w.call_sessions[call_id], digits,
                              nlp_result, sentiment_result, pick0, pick, t),
                  call_id, w.call_sessions[call_id], t)

\* variant: an unknown id is answered as the telephony service answers one
get_call_session_call_not_found(w, call_id) ==
  IF call_id \notin DOMAIN w.call_sessions
    THEN Return(w, ErrorRet("Call not found"))
    ELSE Return(w, SessionRet(w.call_sessions[call_id]))

get_call_session(w, call_id) ==
  IF call_id \notin DOMAIN w.call_sessions
    THEN Return(w, ErrorRet("Call session not found"))
    ELSE Return(w, SessionRet(w.call_sessions[call_id]))

\* the call ids get_active_calls returns
get_active_calls(w) ==
  { call_id \in DOMAIN w.call_sessions :
      w.sessions[w.call_sessions[call_id]].status
        \notin {"completed", "failed", "transferred"} }

\* ===================================================================
\* The state and the request handlers (src/app.py)
\* ===================================================================
VARIABLES
  call_sessions,          \* CallManager.call_sessions: call id -> session reference
  sessions,               \* the call session objects, by reference
  active_conversations,   \* ConversationManager.active_conversations
  active_calls,           \* TelephonyService.active_calls
  uuids,                  \* how many uuid4 values were drawn
  config,                 \* CallManager.config
  now,                    \* datetime.now(), in seconds
  last,                   \* the request served last: its return value, the
                          \* collaborator invocations it made, the engine's result
  threads,                \* the request threads in flight (threaded server)
  served                  \* how many requests were accepted

vars == << call_sessions, sessions, active_conversations, active_calls, uuids,
           config, now, last, threads, served >>

Threads == {"t1", "t2"}
Idle == [pc |-> "idle"]

InboundFrom == "+15559876543"
InboundTo == "+15551234567"

\* request.json of POST /api/calls/inbound: with and without a call id, with
\* and without a flow_type
CallDataInputs ==
  { [from |-> InboundFrom, to |-> InboundTo] }
    \cup { [from |-> InboundFrom, to |-> InboundTo, call_id |-> c] :
             c \in SuppliedCallIds }
    \cup { [from |-> InboundFrom, to |-> InboundTo, call_id |-> c, flow_type |-> f] :
             c \in SuppliedCallIds, f \in FlowInputs }

\* data.get('context') of POST /api/calls/outbound
ContextInputs == { <<>> } \cup { [flow_type |-> f] : f \in FlowInputs }

nlp_of(e) == [intent |-> e.intent]
sentiment_of(e) == [sentiment |-> e.sentiment, score |-> e.score]

\* the call ids a request may name: the registered ones and the supplied ones
RequestCallIds == DOMAIN call_sessions \cup SuppliedCallIds

World ==
  [ call_sessions |-> call_sessions, sessions |-> sessions,
    convs |-> active_conversations, calls |-> active_calls, uuids |-> uuids,
    log |-> <<>>, ret |-> NoRet ]

\* the session objects still referenced: by the registry or by a thread
Collect(objs, registry, thr) ==
  LET live == { registry[c] : c \in DOMAIN registry }
                \cup { thr[t].ref : t \in { u \in DOMAIN thr : thr[u].pc # "idle" } }
  IN [r \in DOMAIN objs \cap live |-> objs[r]]

\* what the transcription collaborator answered, when it was not consulted
NoTranscription == [error |-> NoKey, text |-> NoText]

Served(op, call_id, w, result, transcription_result) ==
  [ op |-> op, call_id |-> call_id, ret |-> w.ret, log |-> w.log,
    result |-> result, transcription |-> transcription_result ]

\* a handler's effects become the state
Apply(w, thr) ==
  /\ threads' = thr
  /\ call_sessions' = w.call_sessions
  /\ active_conversations' = w.convs
  /\ active_calls' = w.calls
  /\ uuids' = w.uuids
  /\ sessions' = Collect(w.sessions, w.call_sessions, thr)

\* the server accepts one more request
Accept ==
  /\ served < MaxRequests
  /\ served' = served + 1

\* the request is answered: the handler's effects become the state, what it
\* returned the response
Respond(op, call_id, r, transcription_result, thr) ==
  /\ Apply(r.w, thr)
  /\ last' = Served(op, call_id, r.w, r.result, transcription_result)

Session(call_id) == sessions[call_sessions[call_id]]

Terminal(status) == status \in {"completed", "transferred", "failed"}

Init ==
  /\ call_sessions = <<>>
  /\ sessions = <<>>
  /\ active_conversations = <<>>
  /\ active_calls = <<>>
  /\ uuids = 0
  /\ config \in { _load_config(b) : b \in BOOLEAN }
  /\ now = 0
  /\ last = [ op |-> "init", call_id |-> NoText, ret |-> NoRet, log |-> <<>>,
              result |-> NoResult, transcription |-> NoTranscription ]
  /\ threads = [t \in Threads |-> Idle]
  /\ served = 0

\* time passes
Tick ==
  /\ now < MaxTime
  /\ now' = now + 1
  /\ UNCHANGED << call_sessions, sessions, active_conversations, active_calls,
                  uuids, config, last, threads, served >>

\* POST /api/calls/inbound
HandleInboundCall ==
  \E call_data \in CallDataInputs, pick \in Picks :
    /\ Accept
    /\ Respond("handle_incoming_call", incoming_call_id(call_data, now),
               Outcome(handle_incoming_call(World, config, call_data, pick, now),
                       NoResult),
               NoTranscription, threads)
    /\ UNCHANGED << config, now >>

\* POST /api/calls/outbound
MakeOutboundCall ==
  \E phone_number \in PhoneNumbers, context \in ContextInputs, pick \in Picks :
    /\ Accept
    /\ Respond("make_outbound_call", make_call_id(phone_number, now),
               Outcome(make_outbound_call(World, config, phone_number, context,
                                          placed_call(phone_number, now),
                                          pick, now),
                       NoResult),
               NoTranscription, threads)
    /\ UNCHANGED << config, now >>

\* what a collaborator answers is drawn only when the handler consults it
Drawn(S, consulted) == IF consulted THEN S ELSE {CHOOSE x \in S : TRUE}

\* POST /api/calls/<call_id>/speech
ProcessSpeech ==
  \E call_id \in RequestCallIds :
    \E transcription_result \in
         Drawn(TranscriptionResults, call_id \in DOMAIN call_sessions) :
      \E e \in Drawn(EngineInputs, /\ call_id \in DOMAIN call_sessions
                                   /\ ~transcription_failed(transcription_result)),
         pick \in Drawn(Picks, /\ call_id \in DOMAIN call_sessions
                               /\ ~transcription_failed(transcription_result)) :
        /\ Accept
        /\ Respond("process_speech", call_id,
                   process_speech(World, config, call_id, transcription_result,
                                  nlp_of(e), sentiment_of(e), 1, pick, now),
                   IF call_id \in DOMAIN call_sessions
                     THEN transcription_result ELSE NoTranscription,
                   threads)
        /\ UNCHANGED << config, now >>

\* POST /api/calls/<call_id>/dtmf
ProcessDtmf ==
  \E call_id \in RequestCallIds :
    \E digits \in Drawn(Digits, call_id \in DOMAIN call_sessions),
       e \in Drawn(EngineInputs, call_id \in DOMAIN call_sessions),
       pick \in Drawn(Picks, call_id \in DOMAIN call_sessions) :
      /\ Accept
      /\ Respond("process_dtmf", call_id,
                 process_dtmf(World, call_id, digits, nlp_of(e), sentiment_of(e),
                              1, pick, now),
                 NoTranscription, threads)
      /\ UNCHANGED << config, now >>

\* DELETE /api/calls/<call_id>
EndCall ==
  \E call_id \in RequestCallIds :
    \E reason \in Drawn(Reasons, call_id \in DOMAIN call_sessions) :
      /\ Accept
      /\ Respond("end_call", call_id,
                 Outcome(end_call(World, config, call_id, reason, now), NoResult),
                 NoTranscription, threads)
      /\ UNCHANGED << config, now >>

\* requests served one at a time
Next ==
  \/ Tick
  \/ HandleInboundCall
  \/ MakeOutboundCall
  \/ ProcessSpeech
  \/ ProcessDtmf
  \/ EndCall

Spec == Init /\ [][Next]_vars

\* ===================================================================
\* The threaded server: app.run serves each request on a thread of its
\* own, and a handler gives way to the other threads while it waits for a
\* collaborator (transcription, the engine, the telephony service).
\* ===================================================================

\* a handler in flight: its position and its local variables; seen_status
\* is the status the session had when the handler looked it up
InFlight(pc, op, call_id, text, reason) ==
  [ pc |-> pc, op |-> op, call_id |-> call_id, ref |-> call_sessions[call_id],
    text |-> text, reason |-> reason, log |-> <<>>,
    seen_status |-> Session(call_id).status ]

\* the world a handler in flight resumes in
Resumed(th) == [World EXCEPT !.log = th.log]

\* the handler goes on waiting, at pc
Waiting(th, w, pc) == [th EXCEPT !.pc = pc, !.log = w.log]

\* if call_id not in self.call_sessions: return {"error": ...}
NotFound(op, call_id) ==
  /\ call_id \notin DOMAIN call_sessions
  /\ Accept
  /\ Respond(op, call_id,
             Outcome(Return(World, ErrorRet("Call session not found")), NoResult),
             NoTranscription, threads)

\* process_speech, lines 257-266: the session is looked up, the audio sent
SpeechLookup(t) ==
  /\ threads[t].pc = "idle"
  /\ \E call_id \in RequestCallIds :
       \/ NotFound("process_speech", call_id)
       \/ /\ call_id \in DOMAIN call_sessions
          /\ Accept
          /\ threads' = [threads EXCEPT ![t] =
               InFlight("transcribe", "process_speech", call_id, NoText, NoKey)]
          /\ UNCHANGED << call_sessions, sessions, active_conversations,
                          active_calls, uuids, last >>
  /\ UNCHANGED << config, now >>

\* lines 268-275: an error is returned, or the text filed and sent on
Transcribed(t, w, transcription_result) ==
  IF w.ret # NoRet
    THEN Respond("process_speech", threads[t].call_id, Outcome(w, NoResult),
                 transcription_result, [threads EXCEPT ![t] = Idle])
    ELSE /\ Apply(w, [threads EXCEPT ![t] =
                [Waiting(threads[t], w, "converse") EXCEPT
                   !.text = transcription_result.text]])
         /\ UNCHANGED last

\* process_speech, lines 266-290: the transcription is back
SpeechTranscribed(t) ==
  /\ threads[t].pc = "transcribe"
  /\ \E transcription_result \in TranscriptionResults :
       Transcribed(t, ps_transcribed(Resumed(threads[t]), threads[t].call_id,
                                     threads[t].ref, transcription_result, now),
                   transcription_result)
  /\ UNCHANGED << config, now, served >>

\* process_speech, lines 287-354: the engine's result is back
SpeechConversed(t) ==
  /\ threads[t].pc = "converse"
  /\ threads[t].op = "process_speech"
  /\ \E e \in EngineInputs, pick \in Picks :
       LET th == threads[t]
       IN Respond("process_speech", th.call_id,
                  ps_acted(converse(Resumed(th), th.call_id, th.text,
                                    speech_context(th.call_id, sessions[th.ref]),
                                    nlp_of(e), sentiment_of(e), 1, pick, now),
                           config, th.call_id, th.ref, now),
                  [error |-> NoKey, text |-> th.text],
                  [threads EXCEPT ![t] = Idle])
  /\ UNCHANGED << config, now, served >>

\* process_dtmf, lines 367-395: the session is looked up, the digits filed
DtmfLookup(t) ==
  /\ threads[t].pc = "idle"
  /\ \E call_id \in RequestCallIds :
       \/ NotFound("process_dtmf", call_id)
       \/ /\ call_id \in DOMAIN call_sessions
          /\ \E digits \in Digits :
               /\ Accept
               /\ Apply(pd_heard(World, call_sessions[call_id], digits, now),
                        [threads EXCEPT ![t] =
                           InFlight("converse", "process_dtmf", call_id,
                                    <<"Pressed ", digits>>, NoKey)])
               /\ UNCHANGED last
  /\ UNCHANGED << config, now >>

\* process_dtmf, lines 395-422: the engine's result is back
DtmfConversed(t) ==
  /\ threads[t].pc = "converse"
  /\ threads[t].op = "process_dtmf"
  /\ \E e \in EngineInputs, pick \in Picks :
       LET th == threads[t]
       IN Respond("process_dtmf", th.call_id,
                  pd_acted(converse(Resumed(th), th.call_id, th.text,
                                    dtmf_context(th.call_id, sessions[th.ref]),
                                    nlp_of(e), sentiment_of(e), 1, pick, now),
                           th.call_id, th.ref, now),
                  NoTranscription, [threads EXCEPT ![t] = Idle])
  /\ UNCHANGED << config, now, served >>

\* end_call, lines 435-441: the session is looked up
EndLookup(t) ==
  /\ threads[t].pc = "idle"
  /\ \E call_id \in RequestCallIds :
       \/ NotFound("end_call", call_id)
       \/ /\ call_id \in DOMAIN call_sessions
          /\ \E reason \in Reasons :
               /\ Accept
               /\ threads' = [threads EXCEPT ![t] =
                    InFlight("end", "end_call", call_id, NoText, reason)]
          /\ UNCHANGED << call_sessions, sessions, active_conversations,
                          active_calls, uuids, last >>
  /\ UNCHANGED << config, now >>

\* end_call, lines 443-465: the telephony service has answered
EndFinished(t) ==
  /\ threads[t].pc = "end"
  /\ LET th == threads[t]
     IN Respond("end_call", th.call_id,
                Outcome(end_call_body(Resumed(th), config, th.call_id, th.ref,
                                      th.reason, now),
                        NoResult),
                NoTranscription, [threads EXCEPT ![t] = Idle])
  /\ UNCHANGED << config, now, served >>

\* requests served concurrently
ThreadNext ==
  \/ Tick
  \/ HandleInboundCall
  \/ MakeOutboundCall
  \/ \E t \in Threads : SpeechLookup(t)
  \/ \E t \in Threads : SpeechTranscribed(t)
  \/ \E t \in Threads : SpeechConversed(t)
  \/ \E t \in Threads : DtmfLookup(t)
  \/ \E t \in Threads : DtmfConversed(t)
  \/ \E t \in Threads : EndLookup(t)
  \/ \E t \in Threads : EndFinished(t)

ThreadSpec == Init /\ [][ThreadNext]_vars

\* ===================================================================
\* Outbound calls through a telephony service whose make_call may fail:
\* CallManager takes the service as a constructor argument
\* ===================================================================

DialErrors == {"Failed to place call"}

\* what make_call may answer for phone_number
DialResults(phone_number, t) ==
  {placed_call(phone_number, t)} \cup { dial_error(e) : e \in DialErrors }

\* POST /api/calls/outbound
MakeOutboundCallVia ==
  \E phone_number \in PhoneNumbers, context \in ContextInputs, pick \in Picks :
    \E call_result \in DialResults(phone_number, now) :
      /\ Accept
      /\ Respond("make_outbound_call", make_call_id(phone_number, now),
                 Outcome(make_outbound_call(World, config, phone_number, context,
                                            call_result, pick, now),
                         NoResult),
                 NoTranscription, threads)
      /\ UNCHANGED << config, now >>

DialNext ==
  \/ Tick
  \/ MakeOutboundCallVia
  \/ EndCall

DialSpec == Init /\ [][DialNext]_vars

\* ===================================================================
\* Inbound calls that are looked up as well: GET /api/calls/<call_id>
\* besides the requests that act on a call
\* ===================================================================

\* GET /api/calls/<call_id>
GetCall ==
  \E call_id \in RequestCallIds :
    /\ Accept
    /\ Respond("get_call_session", call_id,
               Outcome(get_call_session(World, call_id), NoResult),
               NoTranscription, threads)
    /\ UNCHANGED << config, now >>

LookupNext ==
  \/ HandleInboundCall
  \/ ProcessSpeech
  \/ ProcessDtmf
  \/ EndCall
  \/ GetCall

LookupSpec == Init /\ [][LookupNext]_vars

\* ===================================================================
\* The conversation manager on its own: start_conversation, process and
\* end_conversation called directly on a ConversationManager
\* ===================================================================

\* a flow id that _load_flows does not define
UnknownFlow == "sales"
\* the flow_type a caller of the conversation manager may pass
EngineFlows == {"real_estate", UnknownFlow}
\* the flow_type the context of a turn may name
TurnFlows == {"default", "real_estate"}
\* a conversation id of the caller's own choosing
SuppliedConversationIds == {100}
\* what random.choice draws for the greeting of a conversation
GreetingPicks == {1, 2}
\* the context a caller of start_conversation may pass
StartContexts == { [customer |-> "returning"] }
\* what the extractor and the scorer answer, on the turns of a conversation
TurnInputs ==
  { [intent |-> "unknown", sentiment |-> "neutral", score |-> 50],
    [intent |-> "booking", sentiment |-> "neutral", score |-> 50],
    [intent |-> "transfer", sentiment |-> "neutral", score |-> 50],
    [intent |-> "unknown", sentiment |-> "negative", score |-> 10],
    [intent |-> "unknown", sentiment |-> "negative", score |-> TransferScoreThreshold],
    [intent |-> "unknown", sentiment |-> "positive", score |-> 10] }

\* the conversation a call returned, and None
ConversationRet(conversation) == [kind |-> "conversation", conversation |-> conversation]
NoConversation == [kind |-> "None"]

\* ConversationManager.get_conversation: self.active_conversations.get(id)
get_conversation(convs, conversation_id) ==
  IF conversation_id \in DOMAIN convs
    THEN ConversationRet(convs[conversation_id]) ELSE NoConversation

\* the ids start_conversation may be given: none, an active or an ended one,
\* or one of the caller's own
StartIds == (0..uuids) \cup SuppliedConversationIds

\* the context of a turn: it names the conversation, when there is one
turn_context(conversation_id, flow_type) ==
  IF conversation_id = NoConv
    THEN [flow_type |-> flow_type]
    ELSE [conversation_id |-> conversation_id, flow_type |-> flow_type]

\* uuid.uuid4() is asked for a value only when no id was given
drawn_uuids(conversation_id) ==
  IF conversation_id = NoConv THEN uuids + 1 ELSE uuids

\* what a call of the conversation manager named: the conversation id
\* (NoConv for none) and the flow_type
named(conversation_id, flow_type) == <<"conversation", conversation_id, flow_type>>

EngineServed(op, request, ret, result) ==
  [ op |-> op, call_id |-> request, ret |-> ret, log |-> <<>>,
    result |-> result, transcription |-> NoTranscription ]

Started(st, request) ==
  /\ active_conversations' = st.convs
  /\ last' = EngineServed("start_conversation", request,
                          ConversationRet(st.conversation), NoResult)

Processed(r, request) ==
  /\ active_conversations' = r.convs
  /\ last' = EngineServed("process", request, NoRet, r.result)

\* conversation_manager.start_conversation(conversation_id, flow_type, context)
StartConversation ==
  \E conversation_id \in StartIds, flow_type \in EngineFlows,
     context \in StartContexts, pick \in GreetingPicks :
    /\ Accept
    /\ Started(start_conversation(active_conversations, conversation_id,
                                  flow_type, context, uuids + 1, pick, now),
               named(conversation_id, flow_type))
    /\ uuids' = drawn_uuids(conversation_id)
    /\ UNCHANGED << call_sessions, sessions, active_calls, config, now, threads >>

\* conversation_manager.process(text, context, nlp_result, sentiment_result)
Process ==
  \E conversation_id \in DOMAIN active_conversations \cup {NoConv},
     flow_type \in TurnFlows, text \in Speech, e \in TurnInputs,
     pick \in Picks :
    /\ Accept
    /\ Processed(process(active_conversations, text,
                         turn_context(conversation_id, flow_type),
                         nlp_of(e), sentiment_of(e), uuids + 1, 1, pick, now),
                 named(conversation_id, flow_type))
    /\ uuids' = drawn_uuids(conversation_id)
    /\ UNCHANGED << call_sessions, sessions, active_calls, config, now, threads >>

\* conversation_manager.end_conversation(conversation_id)
EndConversation ==
  \E conversation_id \in StartIds \ {NoConv} :
    /\ Accept
    /\ active_conversations' = end_conversation(active_conversations, conversation_id)
    /\ last' = EngineServed("end_conversation", named(conversation_id, NoKey),
                            get_conversation(active_conversations, conversation_id),
                            NoResult)
    /\ UNCHANGED << call_sessions, sessions, active_calls, uuids, config, now,
                    threads >>

\* a ConversationManager just constructed; the clock stands still, the
\* manager's behaviour does not depend on it
EngineInit ==
  /\ Init
  /\ config = _load_config(TRUE)

EngineNext ==
  \/ StartConversation
  \/ Process
  \/ EndConversation

EngineSpec == EngineInit /\ [][EngineNext]_vars

\* ===================================================================
\* Properties
\* ===================================================================

\* this step serves one request, in one piece
Serves(op, call_id) ==
  /\ served' = served + 1
  /\ last'.op = op
  /\ last'.call_id = call_id

\* the session registered under call_id after the step
SessionAfter(call_id) == sessions'[call_sessions'[call_id]]

\* the fields of a session that termination fixes
Fixed(call_session) ==
  [ status |-> call_session.status, transcript |-> call_session.transcript,
    end_time |-> call_session.end_time, duration |-> call_session.duration,
    summary |-> call_session.summary ]

\* C1: a process_speech or process_dtmf on a call whose session is terminal
\* (completed, transferred or failed) is rejected: it returns an error,
\* appends nothing to the transcript, does not advance the conversation and
\* does not change the session's status.
C1_TerminalTurnRejected ==
  [][ \A call_id \in DOMAIN call_sessions :
        ( /\ Terminal(Session(call_id).status)
          /\ \/ Serves("process_speech", call_id)
             \/ Serves("process_dtmf", call_id) )
        => /\ last'.ret.kind = "error"
           /\ SessionAfter(call_id).transcript = Session(call_id).transcript
           /\ SessionAfter(call_id).status = Session(call_id).status
           /\ active_conversations' = active_conversations ]_vars

\* C2: once end_call has completed a session, a second end_call on the same
\* call id returns an error and recomputes neither the end time, nor the
\* duration, nor the summary.
C2_SecondEndCallRejected ==
  [][ \A call_id \in DOMAIN call_sessions :
        ( /\ Session(call_id).status = "completed"
          /\ Serves("end_call", call_id) )
        => /\ last'.ret.kind = "error"
           /\ SessionAfter(call_id).end_time = Session(call_id).end_time
           /\ SessionAfter(call_id).duration = Session(call_id).duration
           /\ SessionAfter(call_id).summary = Session(call_id).summary ]_vars

\* thread t is inside process_speech, past its session lookup, and an
\* end_call has since completed the session it holds
EndedInFlight(t) ==
  /\ threads[t].pc # "idle"
  /\ threads[t].op = "process_speech"
  /\ ~Terminal(threads[t].seen_status)
  /\ sessions[threads[t].ref].status = "completed"
  /\ last.op = "end_call"
  /\ last.ret = SessionRet(threads[t].ref)

\* C3: when end_call completes a session while a process_speech on it is in
\* flight, every later step of that process_speech leaves the session as
\* end_call left it: nothing is appended, no field changes.
C3_InFlightDiscards ==
  [][ \A t \in Threads :
        ( /\ EndedInFlight(t)
          /\ threads'[t] # threads[t] )
        => /\ threads[t].ref \in DOMAIN sessions'
           /\ sessions'[threads[t].ref] = sessions[threads[t].ref] ]_vars

\* C4: no two operations on the same call id are in flight at once.
C4_PerSessionExclusion ==
  \A t \in Threads, u \in Threads :
    ( /\ t # u
      /\ threads[t].pc # "idle"
      /\ threads[u].pc # "idle" )
    => threads[t].call_id # threads[u].call_id

\* the edges of the lifecycle
LifecycleEdges ==
  { <<"initiated", "ringing">>, <<"ringing", "in-progress">>,
    <<"in-progress", "completed">>, <<"in-progress", "transferred">>,
    <<"in-progress", "failed">> }

\* handle_incoming_call invoked the telephony service's answer_call
Answered(log) == \E i \in 1..Len(log) : log[i].fn = "answer_call"

\* C5: every change of a session's status follows an edge of the lifecycle,
\* and an inbound session is in-progress once handle_incoming_call has invoked
\* answer_call for it.
C5_LifecycleEdges ==
  [][ /\ \A ref \in DOMAIN sessions \cap DOMAIN sessions' :
           sessions'[ref].status # sessions[ref].status
             => <<sessions[ref].status, sessions'[ref].status>> \in LifecycleEdges
      /\ \A call_id \in DOMAIN call_sessions' :
           ( /\ Serves("handle_incoming_call", call_id)
             /\ Answered(last'.log) )
           => SessionAfter(call_id).status = "in-progress" ]_vars

\* C6: once a session is terminal, its status, transcript, end time, duration
\* and summary never change again.
C6_TerminalImmutable ==
  [][ \A ref \in DOMAIN sessions \cap DOMAIN sessions' :
        Terminal(sessions[ref].status)
          => Fixed(sessions'[ref]) = Fixed(sessions[ref]) ]_vars

\* C7: when transcription returns an error, process_speech returns that
\* error and changes neither the session nor the conversation.
C7_TranscriptionError ==
  [][ \A call_id \in DOMAIN call_sessions :
        ( /\ Serves("process_speech", call_id)
          /\ last'.transcription.error # NoKey )
        => /\ last'.ret = ErrorRet(last'.transcription.error)
           /\ SessionAfter(call_id) = Session(call_id)
           /\ active_conversations' = active_conversations ]_vars

C7_Witness ==
  /\ last.op = "process_speech"
  /\ last.call_id \in DOMAIN call_sessions
  /\ last.transcription.error = "API key not provided"
  /\ last.ret = ErrorRet("API key not provided")
  /\ Len(Session(last.call_id).transcript) = 1

\* "Transferring to a human representative at <number>."
IsTransferEntry(entry, number) ==
  /\ entry.speaker = "system"
  /\ entry.text = <<"Transferring to a human representative at ", number, ".">>

\* C8: when the engine requires a transfer for a process_speech turn on an
\* active session, the telephony service's transfer_call is invoked with the
\* configured default transfer number, the session becomes transferred to
\* that number, the last transcript entry is the system's transfer message
\* and the returned action is transfer.
C8_Transfer ==
  [][ \A call_id \in DOMAIN call_sessions :
        ( /\ ~Terminal(Session(call_id).status)
          /\ Serves("process_speech", call_id)
          /\ last'.result.transfer_required )
        => LET number == config.transfer_numbers.default
               after == SessionAfter(call_id)
           IN /\ \E i \in 1..Len(last'.log) :
                   /\ last'.log[i].fn = "transfer_call"
                   /\ last'.log[i].call_id = call_id
                   /\ last'.log[i].arg = <<number>>
              /\ after.status = "transferred"
              /\ after.transfer_to = number
              /\ IsTransferEntry(after.transcript[Len(after.transcript)], number)
              /\ last'.ret.kind = "action"
              /\ last'.ret.action = "transfer" ]_vars

\* a first turn, on a session never ended, that the engine answered with a
\* transfer
C8_Witness ==
  /\ last.op = "process_speech"
  /\ last.result.transfer_required
  /\ last.call_id \in DOMAIN call_sessions
  /\ Session(last.call_id).status = "transferred"
  /\ Session(last.call_id).end_time = NoTime
  /\ Len(Session(last.call_id).transcript) = 3
  /\ last.ret.kind = "action"
  /\ last.ret.action = "transfer"

\* C9: when the resolved next state of a process_speech turn is farewell and
\* no transfer is required, end_call is invoked for the call: on return the
\* session is completed, with end time and summary set, and the returned
\* action is end_call.
C9_Farewell ==
  ( /\ last.op = "process_speech"
    /\ last.result.next_state = "farewell"
    /\ ~last.result.transfer_required )
  => /\ last.call_id \in DOMAIN call_sessions
     /\ \E i \in 1..Len(last.log) :
          /\ last.log[i].fn = "end_call"
          /\ last.log[i].call_id = last.call_id
     /\ Session(last.call_id).status = "completed"
     /\ Session(last.call_id).end_time # NoTime
     /\ Session(last.call_id).summary # NoSummary
     /\ last.ret.kind = "action"
     /\ last.ret.action = "end_call"

C9_Witness ==
  /\ last.op = "process_speech"
  /\ last.result.next_state = "farewell"
  /\ ~last.result.transfer_required
  /\ Session(last.call_id).status = "completed"
  /\ Session(last.call_id).end_reason = "completed"
  /\ last.ret.action = "end_call"

\* C10: process_dtmf does what a process_speech whose transcription gave
\* "Pressed <digits>" does: for every engine result the same status and the
\* same returned action (transfer when a transfer is required, end_call when
\* the next state is farewell).
C10_DtmfAsSpeech ==
  [][ \A call_id \in DOMAIN call_sessions, digits \in Digits,
         e \in EngineInputs, pick \in Picks :
        LET ref == call_sessions[call_id]
            dtmf == process_dtmf(World, call_id, digits, nlp_of(e),
                                 sentiment_of(e), 1, pick, now)
            speech == process_speech(World, config, call_id,
                                     [error |-> NoKey, text |-> <<"Pressed ", digits>>],
                                     nlp_of(e), sentiment_of(e), 1, pick, now)
        IN ( /\ Serves("process_dtmf", call_id)
             /\ last'.result = dtmf.result
             /\ sessions' = Collect(dtmf.w.sessions, dtmf.w.call_sessions, threads) )
           => /\ dtmf.w.sessions[ref].status = speech.w.sessions[ref].status
              /\ dtmf.w.ret.action = speech.w.ret.action ]_vars

\* ------------------------------------------------------------------
\* the conversation manager's own claims, under EngineSpec
\* ------------------------------------------------------------------

\* the result r reports a transfer exactly when the answers it repeats ask
\* for one, and then leads to the state transfer
TransferAsPolicy(r) ==
  /\ r.transfer_required =
       ( \/ r.intent = "transfer"
         \/ r.sentiment = "negative" /\ r.sentiment_score < TransferScoreThreshold )
  /\ r.transfer_required => r.next_state = "transfer"

\* C11: for every intent, sentiment label and score the extractor and the
\* scorer answer (TurnInputs: scores below, on and above the threshold, under
\* each sentiment label), on a conversation in whatever state it is, process
\* reports transfer_required = true exactly when the intent is "transfer" or
\* the sentiment is "negative" with a score below 0.2, and whenever it is
\* true the next state is "transfer".
C11_TransferPolicy ==
  last.op = "process" => TransferAsPolicy(last.result)

\* a second turn of a conversation, past its greeting state, was just
\* answered with a transfer that the sentiment alone asked for
C11_Witness ==
  /\ last.op = "process"
  /\ last.result.transfer_required
  /\ last.result.intent # "transfer"
  /\ last.result.next_state = "transfer"
  /\ Len(active_conversations[last.result.conversation_id].history) >= 5

\* the state the conversation id was in before the step (a conversation the
\* step created started in its greeting state)
StateBefore(id) ==
  IF id \in DOMAIN active_conversations
    THEN active_conversations[id].state ELSE "greeting"

\* the ordered rule over the eligible states N
OrderedRule(N, intent) ==
  LET eligible == { N[i] : i \in 1..Len(N) }
  IN CASE intent \in eligible -> intent
       [] intent \notin eligible /\ "information" \in eligible /\ intent = "unknown"
            -> "information"
       [] intent \notin eligible /\ ~("information" \in eligible /\ intent = "unknown")
            /\ N # <<>> -> Head(N)
       [] OTHER -> "farewell"

\* C12: a turn that requires no transfer leads to the state the ordered
\* rule gives over N, the next-state list of the state the conversation was
\* in, looked up in the flow the turn's context names (the list of the
\* flow's greeting state when the flow lacks the state): the intent if it
\* is in N; else "information" if that is in N and the intent is "unknown";
\* else the first entry of N; else, N being empty, "farewell".
C12_OrderedTieBreak ==
  [][ ( /\ served' = served + 1
        /\ last'.op = "process"
        /\ ~last'.result.transfer_required )
      => last'.result.next_state =
           OrderedRule(StateInfo(FlowOf(last'.call_id[3]),
                                 StateBefore(last'.result.conversation_id)).next_states,
                       last'.result.intent) ]_vars

\* a conversation of the default flow that a booking turn took to the state
\* booking, whose list holds "information" but not first, was just given a
\* turn of unknown intent, which took it to "information"
C12_Witness ==
  /\ last.op = "process"
  /\ last.call_id[3] = "default"
  /\ ~last.result.transfer_required
  /\ last.result.intent = "unknown"
  /\ last.result.next_state = "information"
  /\ LET h == active_conversations[last.result.conversation_id].history
     IN /\ Len(h) >= 5
        /\ h[Len(h) - 3].speaker = "user"
        /\ h[Len(h) - 3].metadata.intent = "booking"

\* this step is a call of start_conversation
Starts ==
  /\ served' = served + 1
  /\ last'.op = "start_conversation"

\* C18: start_conversation with an id that is active returns the existing
\* conversation as it is, whatever flow_type and context it is given and
\* however often it is called: the store is left as it was (state, flow,
\* context and history of the conversation included, no greeting added).
C18_StartExistingUnchanged ==
  [][ ( /\ Starts
        /\ last'.call_id[2] \in DOMAIN active_conversations )
      => /\ active_conversations' = active_conversations
         /\ last'.ret = ConversationRet(active_conversations[last'.call_id[2]]) ]_vars

\* start_conversation was just called on a conversation that turns had
\* taken past its greeting, with another flow_type and another context than
\* the conversation's
C18_Witness ==
  /\ last.op = "start_conversation"
  /\ last.call_id[2] \in DOMAIN active_conversations
  /\ last.ret = ConversationRet(active_conversations[last.call_id[2]])
  /\ last.ret.conversation.state # "greeting"
  /\ Len(last.ret.conversation.history) >= 3
  /\ last.ret.conversation.flow_type = "default"
  /\ last.call_id[3] = "real_estate"
  /\ last.ret.conversation.context \notin StartContexts

\* the greeting candidates of a flow of the catalog
GreetingCandidates(flow_type) ==
  LET responses == flows[flow_type].greeting.responses
  IN { responses[i] : i \in 1..Len(responses) }

\* the conversation c is new to the store, which now holds it besides the
\* conversations it held
Registered(c) ==
  /\ c.id # NoConv
  /\ c.id \notin DOMAIN active_conversations
  /\ DOMAIN active_conversations' = DOMAIN active_conversations \cup {c.id}
  /\ active_conversations'[c.id] = c
  /\ \A id \in DOMAIN active_conversations :
       active_conversations'[id] = active_conversations[id]

\* the conversation c is in its greeting state and its history is one
\* system turn, a greeting candidate of its flow
JustGreeted(c) ==
  /\ c.state = "greeting"
  /\ Len(c.history) = 1
  /\ c.history[1].speaker = "system"
  /\ c.flow_type \in DOMAIN flows
  /\ c.history[1].text \in GreetingCandidates(c.flow_type)

\* C19: start_conversation with no id, or with an id that is not active,
\* registers a new conversation, under the given id or else under an id no
\* active conversation has, in state "greeting", whose history is exactly
\* one turn: a system turn whose text is one of the greeting candidates of
\* the conversation's flow.
C19_StartNew ==
  [][ ( /\ Starts
        /\ last'.call_id[2] \notin DOMAIN active_conversations )
      => /\ last'.ret.kind = "conversation"
         /\ Registered(last'.ret.conversation)
         /\ last'.call_id[2] # NoConv
              => last'.ret.conversation.id = last'.call_id[2]
         /\ JustGreeted(last'.ret.conversation) ]_vars

\* start_conversation was just called without an id while another
\* conversation was active, and the new conversation was greeted with the
\* second candidate of its flow
C19_Witness ==
  /\ last.op = "start_conversation"
  /\ last.call_id[2] = NoConv
  /\ Cardinality(DOMAIN active_conversations) >= 2
  /\ last.ret.conversation.id \in DOMAIN active_conversations
  /\ Len(last.ret.conversation.history) = 1
  /\ last.ret.conversation.history[1].text
       = flows[last.ret.conversation.flow_type].greeting.responses[2]

\* the conversation c is bound to the default flow and greets with one of
\* that flow's greeting candidates
BoundToDefault(c) ==
  /\ c.flow_type = "default"
  /\ Len(c.history) >= 1
  /\ c.history[1].speaker = "system"
  /\ c.history[1].text \in GreetingCandidates("default")

\* C20 as stated: start_conversation with a flow_type the catalog lacks
\* returns a conversation bound to the "default" flow, whose greeting turn
\* is one of the default flow's greeting candidates.
C20_UnknownFlowDefault ==
  [][ ( /\ Starts
        /\ last'.call_id[3] \notin DOMAIN flows )
      => /\ last'.ret.kind = "conversation"
         /\ BoundToDefault(last'.ret.conversation) ]_vars

\* C20, amended: start_conversation with a flow_type the catalog lacks, and
\* with no id or an id that is not active, returns a new conversation bound
\* to the "default" flow, whose only turn is one of the default flow's
\* greeting candidates (with an active id the conversation under it is
\* returned, bound to the flow it was opened with).
C20_UnknownFlowDefaultWhenNew ==
  [][ ( /\ Starts
        /\ last'.call_id[3] \notin DOMAIN flows
        /\ last'.call_id[2] \notin DOMAIN active_conversations )
      => /\ last'.ret.kind = "conversation"
         /\ Registered(last'.ret.conversation)
         /\ BoundToDefault(last'.ret.conversation)
         /\ Len(last'.ret.conversation.history) = 1 ]_vars

\* start_conversation was just called without an id and with a flow_type
\* the catalog lacks, and returned a conversation of the default flow
C20_Witness ==
  /\ last.op = "start_conversation"
  /\ last.call_id[2] = NoConv
  /\ last.call_id[3] = UnknownFlow
  /\ last.call_id[3] \notin DOMAIN flows
  /\ last.ret.conversation.id \in DOMAIN active_conversations
  /\ last.ret.conversation.flow_type = "default"

\* ------------------------------------------------------------------
\* setting calls up and ending them, under Spec
\* ------------------------------------------------------------------

\* how often the request invoked the collaborator function fn
Invocations(log, fn) ==
  Cardinality({ i \in 1..Len(log) : log[i].fn = fn })

\* the request invoked fn exactly once, for call_id
InvokedOnce(log, fn, call_id) ==
  /\ Invocations(log, fn) = 1
  /\ \E i \in 1..Len(log) : log[i].fn = fn /\ log[i].call_id = call_id

\* the step started exactly one conversation, which the session is linked
\* to, and the session's transcript is the greeting of that conversation and
\* nothing else
GreetedOnce(call_session) ==
  /\ Invocations(last'.log, "start_conversation") = 1
  /\ call_session.conversation_id # NoConv
  /\ call_session.conversation_id \notin DOMAIN active_conversations
  /\ DOMAIN active_conversations' =
       DOMAIN active_conversations \cup {call_session.conversation_id}
  /\ Len(call_session.transcript) = 1
  /\ call_session.transcript[1].speaker = "system"
  /\ call_session.transcript[1].text =
       active_conversations'[call_session.conversation_id].history[1].text
  /\ active_conversations'[call_session.conversation_id].history[1].speaker = "system"

\* the request returned the session registered under its call id
ReturnedRegistered ==
  /\ last'.call_id \in DOMAIN call_sessions'
  /\ last'.ret = SessionRet(call_sessions'[last'.call_id])
  /\ SessionAfter(last'.call_id).call_id = last'.call_id

\* C13: handle_incoming_call with a call id the caller supplied invokes the
\* telephony service's answer_call exactly once, for that id, starts exactly
\* one conversation, and returns the session registered under that id, with
\* direction inbound, status initiated, a conversation id, and a transcript
\* of exactly one entry: the system greeting.
C13_InboundSupplied ==
  [][ \A call_id \in SuppliedCallIds :
        Serves("handle_incoming_call", call_id)
        => /\ InvokedOnce(last'.log, "answer_call", call_id)
           /\ ReturnedRegistered
           /\ SessionAfter(call_id).direction = "inbound"
           /\ SessionAfter(call_id).status = "initiated"
           /\ GreetedOnce(SessionAfter(call_id)) ]_vars

\* an inbound call with a supplied id was just set up, and answered
C13_Witness ==
  /\ last.op = "handle_incoming_call"
  /\ last.call_id \in SuppliedCallIds
  /\ last.ret = SessionRet(call_sessions[last.call_id])
  /\ Session(last.call_id).status = "initiated"
  /\ Len(Session(last.call_id).transcript) = 1
  /\ \E i \in 1..Len(last.log) : last.log[i].fn = "answer_call"

\* this step serves a request for an outbound call
Dials ==
  /\ served' = served + 1
  /\ last'.op = "make_outbound_call"

\* what make_call answered the request, by the record of its invocation
DialAnswered(ok) ==
  /\ Invocations(last'.log, "make_call") = 1
  /\ \E i \in 1..Len(last'.log) :
       last'.log[i].fn = "make_call" /\ last'.log[i].ok = ok

\* C14: when the telephony service's make_call answers an error,
\* make_outbound_call returns that error and creates nothing: the session
\* registry and the sessions are as they were, no conversation is started
\* and no recording is started.
C14_DialError ==
  [][ ( Dials /\ DialAnswered(FALSE) )
      => /\ last'.ret.kind = "error"
         /\ last'.ret.error \in DialErrors
         /\ call_sessions' = call_sessions
         /\ sessions' = sessions
         /\ active_conversations' = active_conversations
         /\ active_calls' = active_calls
         /\ Invocations(last'.log, "start_conversation") = 0
         /\ Invocations(last'.log, "start_recording") = 0 ]_vars

\* a dial just failed while a call placed earlier was registered
C14_Witness ==
  /\ last.op = "make_outbound_call"
  /\ last.ret.kind = "error"
  /\ Len(last.log) = 1
  /\ last.log[1].fn = "make_call"
  /\ ~last.log[1].ok
  /\ call_sessions # <<>>

\* C15: when make_call places the call, make_outbound_call returns the
\* session registered under the call id make_call answered, with direction
\* outbound, status in-progress, a conversation id, a transcript of exactly
\* one entry (the system greeting) and an armed listen; exactly one
\* conversation is started and synthesize is invoked once.
C15_DialPlaced ==
  [][ ( Dials /\ DialAnswered(TRUE) )
      => /\ ReturnedRegistered
         /\ InvokedOnce(last'.log, "make_call", last'.call_id)
         /\ last'.call_id \in DOMAIN active_calls'
         /\ SessionAfter(last'.call_id).direction = "outbound"
         /\ SessionAfter(last'.call_id).status = "in-progress"
         /\ GreetedOnce(SessionAfter(last'.call_id))
         /\ SessionAfter(last'.call_id).next_action = Listen
         /\ InvokedOnce(last'.log, "synthesize", last'.call_id) ]_vars

\* an outbound call was just placed and greeted, and listens
C15_Witness ==
  /\ last.op = "make_outbound_call"
  /\ last.ret.kind = "session"
  /\ last.call_id \in DOMAIN call_sessions
  /\ last.ret = SessionRet(call_sessions[last.call_id])
  /\ Session(last.call_id).status = "in-progress"
  /\ Session(last.call_id).next_action = Listen
  /\ Len(Session(last.call_id).transcript) = 1
  /\ \E i \in 1..Len(last.log) : last.log[i].fn = "make_call" /\ last.log[i].ok

\* the session was completed at the time of the step for the reason given
\* (NoKey when none was), and summarised
CompletedFor(call_session, start_time, reason) ==
  /\ call_session.status = "completed"
  /\ call_session.end_time = now
  /\ call_session.end_time # NoTime
  /\ call_session.end_reason = (IF reason = NoKey THEN "normal" ELSE reason)
  /\ call_session.duration = call_session.end_time - start_time
  /\ call_session.summary # NoSummary

\* C16: end_call on a registered session that is not terminal invokes the
\* telephony service's end_call exactly once, with the call id and the
\* reason given, and returns the session with status completed, the end
\* time stamped, the end reason the one given ("normal" when none was), the
\* duration the end time minus the start time, and a summary.
C16_EndCall ==
  [][ \A call_id \in DOMAIN call_sessions :
        ( /\ Serves("end_call", call_id)
          /\ ~Terminal(Session(call_id).status) )
        => /\ InvokedOnce(last'.log, "end_call", call_id)
           /\ ReturnedRegistered
           /\ call_sessions'[call_id] = call_sessions[call_id]
           /\ \E reason \in Reasons :
                /\ \E i \in 1..Len(last'.log) :
                     /\ last'.log[i].fn = "end_call"
                     /\ last'.log[i].arg = <<reason>>
                /\ CompletedFor(SessionAfter(call_id),
                                Session(call_id).start_time, reason) ]_vars

\* a call was just ended, some time after it began, with no reason given
C16_Witness ==
  /\ last.op = "end_call"
  /\ last.ret.kind = "session"
  /\ Session(last.call_id).status = "completed"
  /\ Session(last.call_id).end_reason = "normal"
  /\ Session(last.call_id).duration > 0
  /\ Session(last.call_id).summary.kind = "summary"
  /\ \E i \in 1..Len(last.log) :
       last.log[i].fn = "end_call" /\ last.log[i].arg = <<NoKey>>

\* the entries get_active_calls returns, before and after the step: the
\* call ids with the session objects they are registered with
Listed ==
  { <<call_id, call_sessions[call_id]>> : call_id \in get_active_calls(World) }
ListedAfter ==
  { <<call_id, call_sessions'[call_id]>> :
      call_id \in get_active_calls([call_sessions |-> call_sessions',
                                    sessions |-> sessions']) }

\* C17: get_active_calls returns exactly the registered sessions whose
\* status is not completed, failed or transferred; a session is in it once
\* it is created, leaves it only by being ended or transferred, and is never
\* in it again after that.
C17_ListActive ==
  [][ /\ ListedAfter =
           { <<call_id, call_sessions'[call_id]>> :
               call_id \in { c \in DOMAIN call_sessions' :
                               ~Terminal(SessionAfter(c).status) } }
      /\ \A call_id \in DOMAIN call_sessions' :
           call_sessions'[call_id] \notin DOMAIN sessions
             => <<call_id, call_sessions'[call_id]>> \in ListedAfter
      /\ \A entry \in Listed \ ListedAfter :
           /\ entry[1] \in DOMAIN call_sessions'
           /\ call_sessions'[entry[1]] = entry[2]
           /\ sessions'[entry[2]].status \in {"completed", "transferred"}
      /\ \A call_id \in DOMAIN call_sessions :
           Terminal(Session(call_id).status)
             => <<call_id, call_sessions[call_id]>> \notin ListedAfter ]_vars

\* ------------------------------------------------------------------
\* the flow catalog and the states conversations are in, under EngineSpec
\* ------------------------------------------------------------------

\* the flows of the catalog, those the active conversations are bound to
\* among them
CatalogFlows ==
  DOMAIN flows
    \cup { active_conversations[id].flow_type : id \in DOMAIN active_conversations }

\* C21: every flow of the catalog (default, real_estate, customer_support)
\* defines a "greeting" state and a "farewell" state, and the farewell
\* state's next-state list is empty.
C21_FlowsWellFormed ==
  \A flow_type \in CatalogFlows :
    /\ "greeting" \in DOMAIN flows[flow_type]
    /\ "farewell" \in DOMAIN flows[flow_type]
    /\ flows[flow_type]["farewell"].next_states = <<>>

\* C22: the state of every active conversation is a state its flow
\* defines, after start_conversation and after any turns.
C22_StateInFlow ==
  \A id \in DOMAIN active_conversations :
    /\ active_conversations[id].flow_type \in DOMAIN flows
    /\ active_conversations[id].state
         \in DOMAIN flows[active_conversations[id].flow_type]

\* this step is a call of process
Processes ==
  /\ served' = served + 1
  /\ last'.op = "process"

\* the candidate responses of the state of the flow, which defines it
Candidates(flow, state) ==
  { flow[state].responses[i] : i \in 1..Len(flow[state].responses) }

\* the last turn of the history is a system turn of this text
SystemTurnIs(history, text) ==
  /\ Len(history) >= 1
  /\ history[Len(history)].speaker = "system"
  /\ history[Len(history)].text = text

\* C23: whenever start_conversation or process produces a response for a
\* flow F and a state S that F defines (the greeting state for a new
\* conversation, the next state for a turn; F the flow the response is
\* looked up in), the text returned and appended as the system turn is one
\* of the candidate responses of F[S].
C23_ResponseIsCandidate ==
  [][ /\ ( /\ Starts
           /\ last'.call_id[2] \notin DOMAIN active_conversations )
         => /\ SystemTurnIs(last'.ret.conversation.history,
                            last'.ret.conversation.history[1].text)
            /\ last'.ret.conversation.history[1].text
                 \in Candidates(FlowOf(last'.call_id[3]), "greeting")
      /\ ( /\ Processes
           /\ last'.result.next_state \in DOMAIN FlowOf(last'.call_id[3]) )
         => /\ last'.result.response
                 \in Candidates(FlowOf(last'.call_id[3]), last'.result.next_state)
            /\ SystemTurnIs(
                 active_conversations'[last'.result.conversation_id].history,
                 last'.result.response) ]_vars

\* a turn just led to a state other than greeting that the flow defines,
\* and was answered with one of that state's candidates
C23_Witness ==
  /\ last.op = "process"
  /\ last.result.next_state # "greeting"
  /\ last.result.next_state \in DOMAIN FlowOf(last.call_id[3])
  /\ last.result.response
       \in Candidates(FlowOf(last.call_id[3]), last.result.next_state)
  /\ SystemTurnIs(active_conversations[last.result.conversation_id].history,
                  last.result.response)

\* C24: when the next state a turn computes is not defined in the flow, the
\* response is one of the candidates of the flow's greeting state, while the
\* state stored in the conversation and the next_state returned are the
\* computed name; and the turn after it resolves its next state over the
\* greeting state's next-state list.
C24_UndefinedStateFallback ==
  [][ /\ ( /\ Processes
           /\ last'.result.next_state \notin DOMAIN FlowOf(last'.call_id[3]) )
         => /\ last'.result.response
                 \in Candidates(FlowOf(last'.call_id[3]), "greeting")
            /\ active_conversations'[last'.result.conversation_id].state
                 = last'.result.next_state
            /\ last'.result.next_state # "greeting"
      /\ ( /\ Processes
           /\ StateBefore(last'.result.conversation_id)
                \notin DOMAIN FlowOf(last'.call_id[3])
           /\ ~last'.result.transfer_required )
         => last'.result.next_state =
              OrderedRule(FlowOf(last'.call_id[3])["greeting"].next_states,
                          last'.result.intent) ]_vars

\* a conversation of the default flow went from greeting to information to
\* information_detail, which the flow does not define, and the turn after
\* that, of unknown intent, took it to information as from greeting
C24_Witness ==
  /\ last.op = "process"
  /\ last.call_id[3] = "default"
  /\ ~last.result.transfer_required
  /\ last.result.intent = "unknown"
  /\ last.result.next_state = "information"
  /\ LET h == active_conversations[last.result.conversation_id].history
     IN /\ Len(h) = 7
        /\ \A i \in {2, 4, 6} :
             /\ h[i].metadata.intent = "unknown"
             /\ h[i].metadata.sentiment # "negative"
        /\ h[5].text \in Candidates(flows["default"], "greeting")
        /\ active_conversations[last.result.conversation_id].flow_type = "default"

\* this step is a call of end_conversation
Ends ==
  /\ served' = served + 1
  /\ last'.op = "end_conversation"

\* C25: end_conversation on an active id returns the conversation and
\* removes it from the store, after which get_conversation and
\* end_conversation on that id find nothing; on an id that is not active it
\* returns None and changes nothing; no other conversation is affected.
C25_EndConversation ==
  [][ /\ ( Ends /\ last'.call_id[2] \in DOMAIN active_conversations )
         => /\ last'.ret = ConversationRet(active_conversations[last'.call_id[2]])
            /\ DOMAIN active_conversations'
                 = DOMAIN active_conversations \ {last'.call_id[2]}
            /\ \A id \in DOMAIN active_conversations' :
                 active_conversations'[id] = active_conversations[id]
            /\ get_conversation(active_conversations', last'.call_id[2])
                 = NoConversation
            /\ end_conversation(active_conversations', last'.call_id[2])
                 = active_conversations'
      /\ ( Ends /\ last'.call_id[2] \notin DOMAIN active_conversations )
         => /\ last'.ret = NoConversation
            /\ active_conversations' = active_conversations ]_vars

\* a conversation past its greeting was just ended and returned, while
\* another conversation stayed active
C25_Witness ==
  /\ last.op = "end_conversation"
  /\ last.ret.kind = "conversation"
  /\ last.ret.conversation.id = last.call_id[2]
  /\ Len(last.ret.conversation.history) >= 3
  /\ last.call_id[2] \notin DOMAIN active_conversations
  /\ active_conversations # <<>>

\* the history before holds on, turn for turn, in the history after
Extends(after, before) ==
  /\ Len(after) >= Len(before)
  /\ \A i \in 1..Len(before) : after[i] = before[i]

\* the two turns the history ends with are the user's, carrying the intent
\* and the sentiment of the result r, and the system's response
EndsWithTurn(history, r) ==
  /\ Len(history) >= 2
  /\ history[Len(history) - 1].speaker = "user"
  /\ history[Len(history) - 1].text \in Speech
  /\ history[Len(history) - 1].metadata
       = [intent |-> r.intent, sentiment |-> r.sentiment]
  /\ history[Len(history)].speaker = "system"
  /\ history[Len(history)].text = r.response

\* how many turns the conversation id had before the step (a conversation
\* the step created begins with its greeting)
TurnsBefore(id) ==
  IF id \in DOMAIN active_conversations
    THEN Len(active_conversations[id].history) ELSE 1

\* C28: the history of a conversation is append-only, in insertion order:
\* a call of process appends exactly one user turn, which carries the intent
\* and the sentiment as metadata, and then exactly one system turn, and no
\* operation removes or rewrites an earlier turn of a conversation.
C28_HistoryAppendOnly ==
  [][ /\ \A id \in DOMAIN active_conversations \cap DOMAIN active_conversations' :
           Extends(active_conversations'[id].history,
                   active_conversations[id].history)
      /\ Processes
         => /\ last'.result.conversation_id \in DOMAIN active_conversations'
            /\ Len(active_conversations'[last'.result.conversation_id].history)
                 = TurnsBefore(last'.result.conversation_id) + 2
            /\ EndsWithTurn(
                 active_conversations'[last'.result.conversation_id].history,
                 last'.result)
            /\ \A id \in DOMAIN active_conversations
                         \ {last'.result.conversation_id} :
                 /\ id \in DOMAIN active_conversations'
                 /\ active_conversations'[id] = active_conversations[id] ]_vars

\* a conversation that had had a turn was just given another
C28_Witness ==
  /\ last.op = "process"
  /\ last.result.conversation_id \in DOMAIN active_conversations
  /\ LET h == active_conversations[last.result.conversation_id].history
     IN /\ Len(h) = 5
        /\ h[1].speaker = "system"
        /\ h[2].speaker = "user" /\ h[3].speaker = "system"
        /\ h[4].speaker = "user" /\ h[5].speaker = "system"
        /\ h[5].text = last.result.response

\* ------------------------------------------------------------------
\* requests that name a call id without a session, under LookupSpec
\* ------------------------------------------------------------------

\* the requests that look a session up by its call id
LookupOps == {"process_speech", "process_dtmf", "end_call", "get_call_session"}

\* C26: process_speech, process_dtmf, end_call and get_call_session on a
\* call id that has no session return the error "Call session not found",
\* create no session, invoke no collaborator (transcription, engine,
\* telephony) and change no session.
C26_NotFound ==
  [][ \A op \in LookupOps :
        ( /\ served' = served + 1
          /\ last'.op = op
          /\ last'.call_id \notin DOMAIN call_sessions )
        => /\ last'.ret = ErrorRet("Call session not found")
           /\ last'.log = <<>>
           /\ last'.transcription = NoTranscription
           /\ call_sessions' = call_sessions
           /\ sessions' = sessions
           /\ active_conversations' = active_conversations
           /\ active_calls' = active_calls
           /\ uuids' = uuids ]_vars

\* a call id without a session was just looked up while another call was
\* registered
C26_Witness ==
  /\ last.op \in LookupOps
  /\ last.call_id \in SuppliedCallIds
  /\ last.call_id \notin DOMAIN call_sessions
  /\ last.ret = ErrorRet("Call session not found")
  /\ call_sessions # <<>>

\* ------------------------------------------------------------------
\* call ids, transfers and recordings, under Spec
\* ------------------------------------------------------------------

\* C27: call ids are unique across sessions: handle_incoming_call and
\* make_outbound_call never register a new session under a call id that has
\* a session, so the session a call id is registered with is never replaced,
\* whether the id was supplied or generated.
C27_CallIdsUnique ==
  [][ \A call_id \in DOMAIN call_sessions :
        /\ call_id \in DOMAIN call_sessions'
        /\ call_sessions'[call_id] = call_sessions[call_id] ]_vars

\* the request invoked the collaborator function fn, which answered an error
Failed(log, fn) ==
  \E i \in 1..Len(log) : log[i].fn = fn /\ ~log[i].ok

\* C29: when the telephony service's transfer_call answers an error during
\* a process_speech turn that requires a transfer, the turn returns an error
\* and not a transfer action.
C29_TransferFailure ==
  [][ \A call_id \in DOMAIN call_sessions :
        ( /\ Serves("process_speech", call_id)
          /\ Failed(last'.log, "transfer_call") )
        => /\ last'.ret.kind = "error"
           /\ SessionAfter(call_id).status # "transferred" ]_vars

\* C30: the recording of a call is stopped at most once: a request invokes
\* the telephony service's stop_recording only for a call whose recording
\* is in progress, and so not for one whose recording was stopped before,
\* whatever transfers and end_calls the call has had.
C30_StopRecordingOnce ==
  [][ served' = served + 1
      => \A i \in 1..Len(last'.log) :
           last'.log[i].fn = "stop_recording"
             => /\ last'.log[i].call_id \in DOMAIN active_calls
                /\ active_calls[last'.log[i].call_id].recording.status
                     = "in-progress" ]_vars


\* ---------------------------------------------------------------------
\* call summaries: end_call on a session of any transcript and age
\* ---------------------------------------------------------------------

MaxTurns == 2

\* seconds since the call began: under, at and over the minute
Ages == {0, 59, 60, 125}

TranscriptEntries ==
  [ speaker : {"user", "system"},
    text : {<<"Hello! How can I assist you today?">>, <<"Pressed ", "1">>},
    timestamp : {0} ]

Transcripts == UNION { [1..n -> TranscriptEntries] : n \in 0..MaxTurns }

\* the registry holds one inbound session, begun at time 0, as line 104
\* files it; its transcript so far and the time now are drawn
SummaryInit ==
  /\ \E transcript \in Transcripts :
       /\ call_sessions = (<<"c1", 0, "">> :> 1)
       /\ sessions = (1 :> [new_session(<<"c1", 0, "">>, "inbound", "15551112222",
                                        "15553334444", "default", 0)
                              EXCEPT !.transcript = transcript])
  /\ active_conversations = <<>>
  /\ active_calls = <<>>
  /\ uuids = 0
  /\ config \in { _load_config(b) : b \in BOOLEAN }
  /\ now \in Ages
  /\ last = [ op |-> "init", call_id |-> NoText, ret |-> NoRet, log |-> <<>>,
              result |-> NoResult, transcription |-> NoTranscription ]
  /\ threads = [t \in Threads |-> Idle]
  /\ served = 0

SummaryNext == EndCall

SummarySpec == SummaryInit /\ [][SummaryNext]_vars

\* the transcript entries a speaker made
Turns(transcript, speaker) ==
  {i \in 1..Len(transcript) : transcript[i].speaker = speaker}

\* the summary tells of this transcript and this duration
Summarises(summary, transcript, duration) ==
  IF transcript = <<>>
    THEN summary = [kind |-> "No transcript available."]
    ELSE /\ summary.kind = "summary"
         /\ summary.user_turns = Cardinality(Turns(transcript, "user"))
         /\ summary.system_turns = Cardinality(Turns(transcript, "system"))
         /\ summary.user_turns + summary.system_turns = Len(transcript)
         /\ summary.minutes * 60 + summary.seconds = duration
         /\ summary.seconds \in 0..59
         /\ summary.started_with = [of |-> transcript[1].text, chars |-> PreviewLength]
         /\ summary.ended_with =
              IF Len(transcript) >= 2
                THEN [of |-> transcript[Len(transcript)].text, chars |-> PreviewLength]
                ELSE [of |-> NoText, chars |-> PreviewLength]

\* C31: the summary end_call attaches is determined by the session's
\* transcript and duration: the user and system turn counts are the numbers
\* of entries of each speaker (together the transcript's length), minutes
\* and seconds are duration div 60 and mod 60, the first entry is previewed
\* and, with two entries or more, the last one; an empty transcript gives
\* the fixed text "No transcript available.".
C31_Summary ==
  [][ \A call_id \in DOMAIN call_sessions :
        Serves("end_call", call_id)
        => Summarises(SessionAfter(call_id).summary,
                      SessionAfter(call_id).transcript,
                      SessionAfter(call_id).duration) ]_vars

\* a call of one entry was just ended after more than a minute
C31_Witness ==
  /\ last.op = "end_call"
  /\ last.ret.kind = "session"
  /\ Len(Session(last.call_id).transcript) = 1
  /\ Session(last.call_id).duration = 125
  /\ Session(last.call_id).summary.minutes = 2
  /\ Session(last.call_id).summary.seconds = 5
  /\ Session(last.call_id).summary.ended_with.of = NoText


\* ---------------------------------------------------------------------
\* the flow a conversation was created with, under EngineSpec
\* ---------------------------------------------------------------------

\* the entry of the flow for the state, the greeting's for a state it lacks
Resolved(flow, state) ==
  IF state \in DOMAIN flow THEN flow[state] ELSE flow["greeting"]

\* the flow the active conversation id was created with
StoredFlow(id) == FlowOf(active_conversations[id].flow_type)

\* C32: process resolves the next-state list and the response text in the
\* flow the conversation was created with (the flow_type it stores),
\* whatever flow_type the turn's context carries.
C32_StoredFlow ==
  [][ ( /\ Processes
        /\ last'.call_id[2] \in DOMAIN active_conversations )
      => /\ ~last'.result.transfer_required
            => last'.result.next_state =
                 OrderedRule(Resolved(StoredFlow(last'.call_id[2]),
                                      StateBefore(last'.call_id[2])).next_states,
                             last'.result.intent)
         /\ \E i \in DOMAIN Resolved(StoredFlow(last'.call_id[2]),
                                     last'.result.next_state).responses :
              last'.result.response =
                Resolved(StoredFlow(last'.call_id[2]),
                         last'.result.next_state).responses[i] ]_vars


\* ---------------------------------------------------------------------
\* the shipped flows under every intent the NLP engine reports
\* ---------------------------------------------------------------------

\* nlp.py, lines 128-140
CatalogIntents ==
  {"unknown", "greeting", "farewell", "booking", "complaint", "transfer",
   "information"}

CatalogTurns ==
  { [intent |-> i, sentiment |-> "neutral", score |-> 50] : i \in CatalogIntents }
    \cup { [intent |-> i, sentiment |-> "negative", score |-> 10] :
             i \in {"unknown", "complaint"} }

\* conversation_manager.start_conversation(flow_type=...), a new conversation
StartFlow ==
  \E flow_type \in DOMAIN flows, context \in StartContexts :
    /\ Accept
    /\ Started(start_conversation(active_conversations, NoConv, flow_type,
                                  context, uuids + 1, 1, now),
               named(NoConv, flow_type))
    /\ uuids' = uuids + 1
    /\ UNCHANGED << call_sessions, sessions, active_calls, config, now, threads >>

\* conversation_manager.process on an active conversation
ProcessIntent ==
  \E conversation_id \in DOMAIN active_conversations,
     flow_type \in DOMAIN flows, text \in Speech, e \in CatalogTurns :
    /\ Accept
    /\ Processed(process(active_conversations, text,
                         turn_context(conversation_id, flow_type),
                         nlp_of(e), sentiment_of(e), uuids + 1, 1, 1, now),
                 named(conversation_id, flow_type))
    /\ UNCHANGED << call_sessions, sessions, active_calls, uuids, config, now,
                    threads >>

CatalogNext == StartFlow \/ ProcessIntent

CatalogSpec == EngineInit /\ [][CatalogNext]_vars

\* C33: with the shipped flows, the next_state a turn returns is "transfer"
\* exactly when its transfer_required is true, the ordered rule never
\* choosing "transfer"; so a conversation comes to be in state "transfer"
\* only by a turn that required a transfer.
C33_TransferIffRequired ==
  [][ Processes
      => /\ (last'.result.next_state = "transfer") <=> last'.result.transfer_required
         /\ \A id \in DOMAIN active_conversations' :
              active_conversations'[id].state = "transfer"
                => \/ /\ id \in DOMAIN active_conversations
                      /\ active_conversations[id].state = "transfer"
                   \/ /\ id = last'.result.conversation_id
                      /\ last'.result.transfer_required ]_vars

\* a conversation of the default flow went to the state complaint, whose
\* list holds "transfer" second, and a turn of unknown intent that required
\* no transfer took it from there to the first entry of the list
C33_Witness ==
  /\ last.op = "process"
  /\ last.call_id[3] = "default"
  /\ last.result.intent = "unknown"
  /\ ~last.result.transfer_required
  /\ last.result.next_state = "complaint_resolution"
  /\ LET c == active_conversations[last.result.conversation_id]
     IN /\ c.flow_type = "default"
        /\ Len(c.history) = 5
        /\ c.history[2].metadata.intent = "complaint"
        /\ c.history[3].text = flows["default"]["complaint"].responses[1]
        /\ c.state = "complaint_resolution"


\* ---------------------------------------------------------------------
\* sessions and their conversations, under Spec
\* ---------------------------------------------------------------------

\* a turn of process_speech or process_dtmf was just served
TurnServed ==
  /\ served' = served + 1
  /\ last'.op \in {"process_speech", "process_dtmf"}

\* C34: every registered call session is linked to a conversation that is
\* active in the engine, no two registered sessions share a conversation
\* id, the conversation id of a session never changes once set up, and a
\* process_speech or process_dtmf turn creates no conversation.
C34_SessionConversation ==
  [][ /\ \A c \in DOMAIN call_sessions' :
           SessionAfter(c).conversation_id \in DOMAIN active_conversations'
      /\ \A c1 \in DOMAIN call_sessions', c2 \in DOMAIN call_sessions' :
           c1 # c2 => SessionAfter(c1).conversation_id # SessionAfter(c2).conversation_id
      /\ \A ref \in DOMAIN sessions \cap DOMAIN sessions' :
           sessions'[ref].conversation_id = sessions[ref].conversation_id
      /\ TurnServed
           => /\ DOMAIN active_conversations' = DOMAIN active_conversations
              /\ uuids' = uuids ]_vars

\* two calls are registered, each with a conversation of its own, and a
\* turn on one of them was just answered in that call's conversation
C34_Witness ==
  /\ last.op = "process_speech"
  /\ last.ret.kind = "action"
  /\ Cardinality(DOMAIN call_sessions) = 2
  /\ Cardinality(DOMAIN active_conversations) = 2
  /\ last.call_id \in DOMAIN call_sessions
  /\ last.result.conversation_id = Session(last.call_id).conversation_id
  /\ Len(active_conversations[Session(last.call_id).conversation_id].history) = 3


\* an operation on one call was just served
CallServed ==
  /\ served' = served + 1
  /\ last'.op \in {"process_speech", "process_dtmf", "end_call"}

\* the conversations of the sessions registered under call_id, none for an
\* id that is not registered
ConversationsOf(call_id) ==
  IF call_id \in DOMAIN call_sessions
    THEN {Session(call_id).conversation_id} ELSE {}

\* C35: process_speech, process_dtmf and end_call on one call id leave the
\* record of every other call session and the conversation of every other
\* session as they were.
C35_OtherCallsUnchanged ==
  [][ CallServed
      => /\ \A other \in DOMAIN call_sessions \ {last'.call_id} :
              /\ other \in DOMAIN call_sessions'
              /\ SessionAfter(other) = Session(other)
         /\ \A id \in DOMAIN active_conversations \ ConversationsOf(last'.call_id) :
              /\ id \in DOMAIN active_conversations'
              /\ active_conversations'[id] = active_conversations[id] ]_vars

\* of two registered calls one was just taken a turn further and ended by
\* it, while the other still stands as set up
C35_Witness ==
  /\ last.op \in {"process_speech", "process_dtmf"}
  /\ last.call_id \in DOMAIN call_sessions
  /\ Session(last.call_id).status = "completed"
  /\ \E other \in DOMAIN call_sessions \ {last.call_id} :
       /\ Session(other).status = "initiated"
       /\ Len(Session(other).transcript) = 1
       /\ Len(active_conversations[Session(other).conversation_id].history) = 1
       /\ active_conversations[Session(other).conversation_id].state = "greeting"


\* the transcript new is the transcript old with a user entry and then a
\* system entry appended
TurnAppended(old, new) ==
  /\ Len(new) = Len(old) + 2
  /\ SubSeq(new, 1, Len(old)) = old
  /\ new[Len(old) + 1].speaker = "user"
  /\ new[Len(old) + 2].speaker = "system"

\* C36: the transcript of a session is append-only and begins with the
\* system greeting: an operation leaves the transcript of a session as it
\* was, or, being a turn of process_speech or process_dtmf, appends a user
\* entry and then a system entry to it; no earlier entry is removed or
\* rewritten.
C36_TranscriptAppendOnly ==
  [][ /\ \A c \in DOMAIN call_sessions' :
           /\ Len(SessionAfter(c).transcript) >= 1
           /\ SessionAfter(c).transcript[1].speaker = "system"
           /\ SessionAfter(c).transcript[1].text
                \in Candidates(FlowOf(SessionAfter(c).flow_type), "greeting")
      /\ \A ref \in DOMAIN sessions \cap DOMAIN sessions' :
           \/ sessions'[ref].transcript = sessions[ref].transcript
           \/ /\ TurnServed
              /\ call_sessions[last'.call_id] = ref
              /\ TurnAppended(sessions[ref].transcript, sessions'[ref].transcript) ]_vars

\* a call that had its greeting and one turn was just given a second turn:
\* its transcript holds the greeting and the two turns in order
C36_Witness ==
  /\ last.op \in {"process_speech", "process_dtmf"}
  /\ last.ret.kind = "action"
  /\ last.call_id \in DOMAIN call_sessions
  /\ LET transcript == Session(last.call_id).transcript
     IN /\ Len(transcript) = 5
        /\ transcript[1].speaker = "system"
        /\ transcript[2].speaker = "user"
        /\ transcript[3].speaker = "system"
        /\ transcript[4].speaker = "user"
        /\ transcript[5].speaker = "system"


\* the functions of the telephony service that act on a call
TelephonyOperations ==
  {"answer_call", "start_recording", "transfer_call", "stop_recording", "end_call"}

\* C37: with the bundled TelephonyService, every telephony operation the
\* call manager issues for a session it created (answer, start and stop
\* recording, transfer, hang up) is applied to a call the service knows:
\* none is answered "Call not found", for inbound and outbound sessions.
C37_TelephonyKnowsCall ==
  [][ served' = served + 1
      => \A i \in 1..Len(last'.log) :
           last'.log[i].fn \in TelephonyOperations => last'.log[i].ok ]_vars

====
